---- MODULE Spec2Model ----
(***************************************************************************)
(* COBALT: site and document discovery (document_scraper.py,               *)
(* playwright_scraper.py, api/index.py, brrts_client.py), batch text       *)
(* extraction (pdf_extractor.py) and the document session cache            *)
(* (filedownload.py), as state machines.                                   *)
(*                                                                         *)
(* Python values: a dict is a function from its keys (a missing key is a   *)
(* key outside the DOMAIN), a str is a TLA+ string, or a sequence of       *)
(* one-character strings where the code looks at the characters, and None  *)
(* is the string None below.                                               *)
(***************************************************************************)
EXTENDS Integers, Sequences, FiniteSets, TLC

VARIABLES
    \* one request to an analyze entry point
    pc,         \* "idle", "render", "plain", "respond", "done"
    impl,       \* "main" (main.py), "index" (api/index.py), "legacy" (brrts_client.py)
    brrts,      \* the identifier the caller sent, a sequence of characters
    dsn,        \* the dsn the entry point derived from it
    proc,       \* what the renderer subprocess did
    net,        \* what the plain GET did
    remote,     \* what the Browserless POST did (api/index.py)
    calls,      \* the strategies invoked so far, in order
    result,     \* what discovery returned
    raised,     \* an exception left discovery
    response,   \* what the entry point answered
    \* one batch extraction
    xpc,                \* "idle", "loop", "done"
    ximpl,              \* "batch" (pdf_extractor.py), "main" (main.py), "index" (api/index.py)
    PYPDF_AVAILABLE,    \* pypdf could be imported
    PDFMINER_AVAILABLE, \* pdfminer could be imported
    doc_list,           \* the documents the caller passed
    limit_given,        \* the caller passed max_documents
    max_documents,      \* its value, the default when not passed
    taken,              \* how many of them the loop has taken
    results,            \* the results appended so far
    all_text_parts,     \* extract_all_documents: header and text per success
    combined_text,      \* the combined text returned
    combined_chars,     \* api_extract: its combined_text before the cut
    fetched,            \* every GET made: <<position in the list, url>>
    env,                \* what the GET of each document taken met
    xraised,            \* an exception left extract_all_documents
    xresponse,          \* what api_extract answered
    \* the download sessions of the process
    sessions,   \* _sessions: session id -> downloaded_files of its DocumentSession
    dirs,       \* the session ids whose base_dir exists
    files,      \* the files on disk under the session directories
    returned,   \* per session id, identity -> path returned since its last cleanup
    origin,     \* per file on disk, the url its bytes were fetched from
    last,       \* the last call
    prev,       \* the call before it, when it concerns the same identity or session
    \* one risk analysis of extracted text
    infer_text, \* the text analysed
    analysis,   \* what analyze_extracted_text_for_risks returned
    \* one derivation of risk flags from a page, statement by statement
    pass_impl,  \* whose: "renderer", "index_rendered", "index_plain", "plain"
    pass_page,  \* the page
    pass_k,     \* the statements of the derivation that have run
    pass_flags, \* risk_flags as it stands
    \* one text put through clean_extracted_text
    clean_text, \* the text
    cleaned,    \* what clean_extracted_text returned, call after call
    \* the fallback of scrape_dnr_site reading the fields of one page
    scr_page,   \* the title, heading, inputs and cells of the page, as visited
    scr_k,      \* how many of them have been visited
    scr_info    \* site_info as it stands

disc_vars == <<pc, impl, brrts, dsn, proc, net, remote, calls, result, raised, response>>

extract_vars ==
    <<xpc, ximpl, PYPDF_AVAILABLE, PDFMINER_AVAILABLE, doc_list, limit_given, max_documents,
      taken, results, all_text_parts, combined_text, combined_chars, fetched, env, xraised,
      xresponse>>

session_vars == <<sessions, dirs, files, returned, origin, last, prev>>

infer_vars == <<infer_text, analysis>>

pass_vars == <<pass_impl, pass_page, pass_k, pass_flags>>

clean_vars == <<clean_text, cleaned>>

scr_vars == <<scr_page, scr_k, scr_info>>

vars ==
    <<disc_vars, extract_vars, session_vars, infer_vars, pass_vars, clean_vars, scr_vars>>

\* what the steps of one subsystem leave alone
beside_disc == <<extract_vars, session_vars, infer_vars, pass_vars, clean_vars, scr_vars>>
beside_extract == <<disc_vars, session_vars, infer_vars, pass_vars, clean_vars, scr_vars>>
beside_session == <<disc_vars, extract_vars, infer_vars, pass_vars, clean_vars, scr_vars>>
beside_infer == <<disc_vars, extract_vars, session_vars, pass_vars, clean_vars, scr_vars>>
beside_pass == <<disc_vars, extract_vars, session_vars, infer_vars, clean_vars, scr_vars>>
beside_clean == <<disc_vars, extract_vars, session_vars, infer_vars, pass_vars, scr_vars>>
beside_scr == <<disc_vars, extract_vars, session_vars, infer_vars, pass_vars, clean_vars>>

---------------------------------------------------------------------------
(* Python values *)

None == "<None>"

EmptyDict == <<>>

Has(d, k) == k \in DOMAIN d

Get(d, k, default) == IF k \in DOMAIN d THEN d[k] ELSE default

Put(d, k, v) == (k :> v) @@ d

\* bool(v) of a str or None
Truthy(v) == v # None /\ v # ""

---------------------------------------------------------------------------
(* Identifiers *)

Digits == {"1", "2"}

\* what str.strip() removes
Whitespace == {" ", "\t", "\n", "\f"}

MaxIdLen == 2

DsnLen == 6

\* every short identifier, alone and with six more digits before or after it
Identifiers ==
    LET ShortIds == UNION {[1..n -> Digits \cup {" ", "-"}] : n \in 0..MaxIdLen}
        LongDigits == <<"1", "2", "2", "1", "1", "2">>
    IN ShortIds \cup {s \o LongDigits : s \in ShortIds}
                \cup {LongDigits \o s : s \in ShortIds}

RECURSIVE LStrip(_)
LStrip(s) == IF s # <<>> /\ Head(s) \in Whitespace THEN LStrip(Tail(s)) ELSE s

RECURSIVE RStrip(_)
RStrip(s) ==
    IF s # <<>> /\ s[Len(s)] \in Whitespace THEN RStrip(SubSeq(s, 1, Len(s) - 1)) ELSE s

\* str.strip()
Strip(s) == RStrip(LStrip(s))

\* ''.join(c for c in brrts_id if c.isdigit())
RECURSIVE DigitsOnly(_)
DigitsOnly(s) ==
    IF s = <<>> THEN <<>>
    ELSE IF Head(s) \in Digits THEN <<Head(s)>> \o DigitsOnly(Tail(s))
    ELSE DigitsOnly(Tail(s))

\* digits_only[:6] in place of digits_only[-6:]
FirstSix(d) == IF Len(d) >= DsnLen THEN SubSeq(d, 1, DsnLen) ELSE d

\* digits_only[-6:] if len(digits_only) >= 6 else digits_only
LastSix(d) == IF Len(d) >= DsnLen THEN SubSeq(d, Len(d) - DsnLen + 1, Len(d)) ELSE d

RECURSIVE Join(_)
Join(s) == IF s = <<>> THEN "" ELSE Head(s) \o Join(Tail(s))

\* the dsn an analyze entry point derives from the stripped identifier
ExtractDsn(id) == Join(LastSix(DigitsOnly(id)))

---------------------------------------------------------------------------
(* The remote page, as far as the scrapers read it *)

Host == "https://apps.dnr.wi.gov"

\* A document anchor's raw href: it starts with "http" or not (abs), carries a
\* docSeqNo=<digits> query parameter or not (seq, "" when absent), and ends with
\* a fragment or not.  Two hrefs are the same string iff the records are equal.
HrefStr(h) ==
    (IF h.abs THEN Host ELSE "") \o "/rrbotw/download-document"
        \o (IF h.seq # "" THEN "?docSeqNo=" \o h.seq ELSE "?sender=activity") \o h.frag

\* if not href.startswith('http'): href = f"https://apps.dnr.wi.gov{href}"
Absolute(h) == IF h.abs THEN h ELSE [h EXCEPT !.abs = TRUE]

Rel7 == [abs |-> FALSE, seq |-> "7", frag |-> ""]
Abs7 == [abs |-> TRUE, seq |-> "7", frag |-> ""]
NoSeq == [abs |-> FALSE, seq |-> "", frag |-> ""]
Rel7Top == [abs |-> FALSE, seq |-> "7", frag |-> "#top"]

LinkLists == { <<>>, <<Rel7>>, <<Rel7, NoSeq, Rel7, Abs7, Rel7Top>> }

\* the values of the page's INPUT elements, in page order
FullValues ==
    << "LUST", "Closed", "DNR RR", "SOUTHEAST", "MILWAUKEE", "J CAMP VAN DYKE",
       "3575 N LAKE DR", "SHOREWOOD", " ", "43.1", "-87.9", "", "", "", "",
       "1990-01-01", "UNKNOWN",
       "No", "No", "No", "No", "Yes", "YES", "No", "No", "yes" >>

\* the keywords the scrapers look for that occur in the lower-cased page text
WordSets == { {}, {"lust"}, {"petroleum", "lead", "pfas", "tce", "offsite"} }

\* hdr_num = "" when the header pattern does not match the page text
Shapes ==
    { [hdr_num |-> "", hdr_name |-> "", values |-> <<>>],
      [hdr_num |-> "", hdr_name |-> "", values |-> <<"ERP", "UNKNOWN">>],
      [hdr_num |-> "02-41-000123", hdr_name |-> "J CAMP", values |-> FullValues] }

Pages ==
    { [hdr_num |-> s.hdr_num, hdr_name |-> s.hdr_name, values |-> s.values,
       words |-> w, links |-> l] : s \in Shapes, w \in WordSets, l \in LinkLists }

\* str.strip(), str.upper() and str.lower() on the input values of the model
StripStr(s) == IF s = " " THEN "" ELSE s

Upper(s) ==
    CASE s = "Closed" -> "CLOSED"
      [] s = "yes" -> "YES"
      [] s = "Yes" -> "YES"
      [] s = "No" -> "NO"
      [] OTHER -> s

Lower(s) ==
    CASE s = "Closed" -> "closed"
      [] s = "YES" -> "yes"
      [] s = "Yes" -> "yes"
      [] s = "No" -> "no"
      [] s = "LUST" -> "lust"
      [] OTHER -> s

---------------------------------------------------------------------------
(* Document links: the loop shared by scrape_brrts_site and                *)
(* extract_with_requests                                                   *)

SiteFileDoc(n, url, seq_no) ==
    [ id |-> n, download_url |-> url, category |-> "Site File", date |-> "",
      action_code |-> "", name |-> "Site File Documentation (ID: " \o seq_no \o ")",
      comment |-> "DNR site documentation" ]

RECURSIVE LinkLoop(_, _, _)
LinkLoop(links, seen_urls, documents) ==
    IF links = <<>> THEN documents
    ELSE LET href == Head(links) IN
         IF href \notin seen_urls
         THEN LET full == Absolute(href)
                  seq_no == IF full.seq # "" THEN full.seq ELSE ToString(Len(documents))
              IN LinkLoop(Tail(links), seen_urls \cup {href},
                          Append(documents, SiteFileDoc(Len(documents), HrefStr(full), seq_no)))
         ELSE LinkLoop(Tail(links), seen_urls, documents)

DocumentsOf(links) == LinkLoop(links, {}, <<>>)

---------------------------------------------------------------------------
(* playwright_scraper.py: the renderer, run as a subprocess *)

FieldPositions ==
    << "activity_type", "status", "jurisdiction", "dnr_region", "county",
       "location_name", "address", "municipality", "plss_description", "latitude",
       "longitude", "acres", "facility_id", "pecfa_number", "epa_id", "start_date",
       "end_date" >>

CharOffset == 17

CharMap ==
    << "above_ground_tank", "dry_cleaner", "epa_npl", "pecfa_eligible", "pfas",
       "row_impact", "sediments", "wi_dot", "underground_tank" >>

\* the header match, when there is one
HeaderFields(page, site_info) ==
    IF page.hdr_num # ""
    THEN Put(Put(site_info, "activity_number", page.hdr_num), "location_name", page.hdr_name)
    ELSE site_info

\* for idx, key in field_positions.items(): ...   (idx counts from 0)
RECURSIVE FillFields(_, _, _)
FillFields(site_info, values, idx) ==
    IF idx >= Len(FieldPositions) THEN site_info
    ELSE LET key == FieldPositions[idx + 1]
             val == StripStr(values[idx + 1])
         IN IF idx < Len(values)
               /\ ((val # "" /\ val \notin {"", " ", "UNKNOWN"}) \/ key = "acres")
               /\ ~(key = "location_name" /\ Has(site_info, "location_name"))
            THEN FillFields(Put(site_info, key, val), values, idx + 1)
            ELSE FillFields(site_info, values, idx + 1)

\* if site_info.get("acres") == "": site_info["acres"] = "UNKNOWN"
FixAcres(site_info) ==
    IF Get(site_info, "acres", None) = "" THEN Put(site_info, "acres", "UNKNOWN")
    ELSE site_info

RenderedFlagDefaults(site_info) ==
    [ status_label |-> Upper(Get(site_info, "status", "UNKNOWN")),
      pfas |-> FALSE, petroleum |-> FALSE, heavy_metals |-> FALSE,
      chlorinated_solvents |-> FALSE, offsite_impact |-> FALSE,
      underground_tank |-> FALSE, above_ground_tank |-> FALSE ]

\* one characteristic: values[char_offset + char_idx] == "yes"
CharStep(risk_flags, values, char_idx) ==
    LET val_idx == CharOffset + char_idx
        char_name == CharMap[char_idx + 1]
    IN IF val_idx < Len(values) /\ Lower(StripStr(values[val_idx + 1])) = "yes"
       THEN CASE char_name = "pfas" -> Put(risk_flags, "pfas", TRUE)
              [] char_name = "underground_tank" ->
                    Put(Put(risk_flags, "petroleum", TRUE), "underground_tank", TRUE)
              [] char_name = "above_ground_tank" ->
                    Put(Put(risk_flags, "petroleum", TRUE), "above_ground_tank", TRUE)
              [] char_name = "row_impact" -> Put(risk_flags, "offsite_impact", TRUE)
              [] OTHER -> risk_flags
       ELSE risk_flags

RECURSIVE CharLoop(_, _, _)
CharLoop(risk_flags, values, char_idx) ==
    IF char_idx >= Len(CharMap) THEN risk_flags
    ELSE CharLoop(CharStep(risk_flags, values, char_idx), values, char_idx + 1)

\* activity type LUST, then the page-text keywords
RenderedTextFlags(risk_flags, site_info, words) ==
    LET a == IF Upper(Get(site_info, "activity_type", "")) = "LUST"
             THEN Put(risk_flags, "petroleum", TRUE) ELSE risk_flags
        b == IF "petroleum" \in words THEN Put(a, "petroleum", TRUE) ELSE a
        c == IF words \cap {"arsenic", "lead", "chromium", "mercury", "cadmium"} # {}
             THEN Put(b, "heavy_metals", TRUE) ELSE b
    IN IF words \cap {"tce", "pce", "trichloroethylene", "tetrachloroethylene",
                      "chlorinated"} # {}
       THEN Put(c, "chlorinated_solvents", TRUE) ELSE c

\* What the browser did for the renderer: it raised (msg, never empty), or it
\* delivered the rendered page.
BrowserOutcomes ==
    { [raised |-> TRUE, msg |-> "Timeout 60000ms exceeded", page |-> p] :
        p \in {CHOOSE q \in Pages : TRUE} }
    \cup { [raised |-> FALSE, msg |-> "", page |-> p] : p \in Pages }

\* scrape_brrts_site(dsn): the dict the renderer prints as JSON
scrape_brrts_site(d, b) ==
    IF b.raised
    THEN [ site_info |-> [dsn |-> d], risk_flags |-> [status_label |-> "UNKNOWN"],
           documents |-> <<>>, error |-> b.msg ]
    ELSE LET site_info == FixAcres(FillFields(HeaderFields(b.page, [dsn |-> d]),
                                              b.page.values, 0))
             risk_flags == RenderedTextFlags(
                               CharLoop(RenderedFlagDefaults(site_info), b.page.values, 0),
                               site_info, b.page.words)
         IN [ site_info |-> site_info, risk_flags |-> risk_flags,
              documents |-> DocumentsOf(b.page.links), error |-> None ]

\* The renderer's standard output: nothing but white space, text that is no
\* JSON, a JSON value that is no object, or the printed result object.
NoData == [ site_info |-> EmptyDict, risk_flags |-> EmptyDict, documents |-> <<>>,
            error |-> None ]

Stdouts(d) ==
    { [fmt |-> f, data |-> NoData] : f \in {"empty", "garbage", "array"} }
    \cup { [fmt |-> "object", data |-> scrape_brrts_site(d, b)] : b \in BrowserOutcomes }

RenderTimeoutS == 120

\* What subprocess.run met: the process could not be started, ran longer than
\* the timeout, or ended with a return code and its output.
ProcOutcomes(d) ==
    { [spawned |-> FALSE, secs |-> 0, returncode |-> 0,
       stdout |-> [fmt |-> "empty", data |-> NoData]],
      [spawned |-> TRUE, secs |-> RenderTimeoutS + 1, returncode |-> 0,
       stdout |-> [fmt |-> "empty", data |-> NoData]] }
    \cup { [spawned |-> TRUE, secs |-> 1, returncode |-> 0, stdout |-> o] : o \in Stdouts(d) }
    \cup { [spawned |-> TRUE, secs |-> 1, returncode |-> 1, stdout |-> o] :
             o \in { [fmt |-> "empty", data |-> NoData],
                     [fmt |-> "object",
                      data |-> scrape_brrts_site(d, [raised |-> FALSE, msg |-> "",
                                                    page |-> CHOOSE q \in Pages : TRUE])] } }

---------------------------------------------------------------------------
(* document_scraper.py *)

\* ", ".join(filter(None, location_parts))
RECURSIVE JoinComma(_)
JoinComma(parts) ==
    IF parts = <<>> THEN ""
    ELSE IF Head(parts) = "" THEN JoinComma(Tail(parts))
    ELSE IF JoinComma(Tail(parts)) = "" THEN Head(parts)
    ELSE Head(parts) \o ", " \o JoinComma(Tail(parts))

Flag(risk_flags, k) == Get(risk_flags, k, FALSE) = TRUE

generate_summary(site_info, risk_flags, doc_count) ==
    LET location == Get(site_info, "location_name", "Unknown Location")
        activity_num == Get(site_info, "activity_number", Get(site_info, "dsn", "Unknown"))
        status == Get(site_info, "status", Get(risk_flags, "status_label", "Unknown"))
        activity_type == Get(site_info, "activity_type", "Unknown")
        address == Get(site_info, "address", "")
        municipality == Get(site_info, "municipality", "")
        county == Get(site_info, "county", "")
        location_str ==
            JoinComma(<< location,
                         IF address # "" THEN "at " \o address ELSE "",
                         municipality,
                         IF county # "" THEN county \o " County" ELSE "" >>)
        risks ==
            (IF Flag(risk_flags, "petroleum")
             THEN "- Petroleum contamination indicated (LUST site)\n" ELSE "")
            \o (IF Flag(risk_flags, "pfas") THEN "- PFAS contamination present\n" ELSE "")
            \o (IF Flag(risk_flags, "heavy_metals") THEN "- Heavy metals detected\n" ELSE "")
            \o (IF Flag(risk_flags, "chlorinated_solvents")
                THEN "- Chlorinated solvents present\n" ELSE "")
            \o (IF Flag(risk_flags, "offsite_impact")
                THEN "- Off-site or ROW impact noted\n" ELSE "")
        risk_text ==
            IF risks # "" THEN risks
            ELSE "- No major risk indicators identified from site data\n"
    IN "Site: " \o location_str \o "\nActivity: " \o activity_num \o " | Type: "
       \o activity_type \o " | Status: " \o status \o "\n\nStart Date: "
       \o Get(site_info, "start_date", "Unknown") \o "\nEnd Date: "
       \o Get(site_info, "end_date", "N/A") \o "\n\nRisk Indicators:\n" \o risk_text
       \o "\nDocuments Available: " \o ToString(doc_count)
       \o "\n\nRecommendations:\n- Select documents and click \"Extract Text\" to analyze content"
       \o "\n- For legal decisions, always conduct professional Phase I/II ESA review"

NoResult == EmptyDict

\* How a try body ended: it raised exc, it returned value, or it fell through.
Raise(e) == [exc |-> e, returned |-> FALSE, value |-> NoResult]
Return(v) == [exc |-> "", returned |-> TRUE, value |-> v]
FallThrough == [exc |-> "", returned |-> FALSE, value |-> NoResult]

\* the try body without the test of the return code
RenderTryAnyCode(d, p) ==
    IF ~p.spawned THEN Raise("OSError")
    ELSE IF p.secs > RenderTimeoutS THEN Raise("TimeoutExpired")
    ELSE IF p.stdout.fmt # "empty"
    THEN IF p.stdout.fmt = "garbage" THEN Raise("JSONDecodeError")
         ELSE IF p.stdout.fmt = "array" THEN Raise("AttributeError")
         ELSE LET data == p.stdout.data IN
              IF ~Truthy(Get(data, "error", None))
              THEN LET site_info == Get(data, "site_info", [dsn |-> d])
                       risk_flags == Get(data, "risk_flags", [status_label |-> "UNKNOWN"])
                       documents == Get(data, "documents", <<>>)
                   IN Return([ site_info |-> site_info, risk_flags |-> risk_flags,
                               documents |-> documents,
                               summary |-> generate_summary(site_info, risk_flags,
                                                            Len(documents)),
                               error |-> None ])
              ELSE FallThrough
    ELSE FallThrough

\* the try body of extract_site_and_documents
RenderTry(d, p) ==
    IF ~p.spawned THEN Raise("OSError")
    ELSE IF p.secs > RenderTimeoutS THEN Raise("TimeoutExpired")
    ELSE IF p.returncode = 0 /\ p.stdout.fmt # "empty"
    THEN IF p.stdout.fmt = "garbage" THEN Raise("JSONDecodeError")
         ELSE IF p.stdout.fmt = "array" THEN Raise("AttributeError")
         ELSE LET data == p.stdout.data IN
              IF ~Truthy(Get(data, "error", None))
              THEN LET site_info == Get(data, "site_info", [dsn |-> d])
                       risk_flags == Get(data, "risk_flags", [status_label |-> "UNKNOWN"])
                       documents == Get(data, "documents", <<>>)
                   IN Return([ site_info |-> site_info, risk_flags |-> risk_flags,
                               documents |-> documents,
                               summary |-> generate_summary(site_info, risk_flags,
                                                            Len(documents)),
                               error |-> None ])
              ELSE FallThrough
    ELSE FallThrough

\* except subprocess.TimeoutExpired / json.JSONDecodeError / Exception
IsException(exc) == exc # ""

\* the handlers without the final except Exception
RenderCatchesNamed(exc) == exc = "TimeoutExpired" \/ exc = "JSONDecodeError"

RenderCatches(exc) ==
    exc = "TimeoutExpired" \/ exc = "JSONDecodeError" \/ IsException(exc)

\* What requests.get and raise_for_status met.
NetErrors ==
    { [kind |-> "ConnectionError", msg |-> "Max retries exceeded"],
      [kind |-> "Timeout", msg |-> "Read timed out"],
      [kind |-> "HTTPError", msg |-> "500 Server Error"] }

NetOutcomes ==
    { [kind |-> e.kind, msg |-> e.msg, page |-> p] :
        e \in NetErrors, p \in {CHOOSE q \in Pages : TRUE} }
    \cup { [kind |-> "ok", msg |-> "", page |-> p] : p \in Pages }

NoNet == [kind |-> "none", msg |-> "", page |-> CHOOSE q \in Pages : TRUE]

\* the try body of extract_with_requests
PlainTry(d, n) ==
    IF n.kind # "ok" THEN Raise(n.kind)
    ELSE LET site_info == HeaderFields(n.page, [dsn |-> d])
             documents == DocumentsOf(n.page.links)
             risk_flags ==
                 IF "lust" \in n.page.words \/ "petroleum" \in n.page.words
                 THEN Put([status_label |-> "UNKNOWN"], "petroleum", TRUE)
                 ELSE [status_label |-> "UNKNOWN"]
         IN Return([ site_info |-> site_info, risk_flags |-> risk_flags,
                     documents |-> documents,
                     summary |-> generate_summary(site_info, risk_flags, Len(documents)),
                     error |-> None,
                     note |-> "Limited data - JavaScript content not available in serverless mode" ])

\* except Exception as e: the error result
PlainError(d, msg) ==
    [ site_info |-> [dsn |-> d], risk_flags |-> [status_label |-> "UNKNOWN"],
      documents |-> <<>>, summary |-> "Error: " \o msg, error |-> msg ]

\* except Exception
PlainCatches(exc) == TRUE

\* extract_with_requests(dsn) on the network outcome n
extract_with_requests(d, n) ==
    LET o == PlainTry(d, n) IN
    IF o.exc # "" THEN (IF PlainCatches(o.exc) THEN Return(PlainError(d, n.msg))
                        ELSE Raise(o.exc))
    ELSE o

---------------------------------------------------------------------------
(* main.py: POST /api/analyze, over document_scraper.extract_site_and_documents *)

NoResponse == [code |-> 0, body |-> EmptyDict]

DiscInit ==
    /\ pc = "idle"
    /\ impl = "none"
    /\ brrts = <<>>
    /\ dsn = ""
    /\ proc = [spawned |-> FALSE, secs |-> 0, returncode |-> 0,
               stdout |-> [fmt |-> "empty", data |-> NoData]]
    /\ net = NoNet
    /\ remote = NoNet
    /\ calls = <<>>
    /\ result = NoResult
    /\ raised = FALSE
    /\ response = NoResponse

\* api_analyze up to the call of extract_site_and_documents
ApiAnalyze(id) ==
    /\ pc = "idle"
    /\ impl' = "main"
    /\ brrts' = id
    /\ IF Strip(id) = <<>>
       THEN /\ response' = [code |-> 400, body |-> [error |-> "Missing BRRTS activity ID."]]
            /\ pc' = "done"
            /\ dsn' = dsn
       ELSE /\ dsn' = ExtractDsn(Strip(id))
            /\ pc' = "render"
            /\ response' = response
    /\ UNCHANGED <<proc, net, remote, calls, result, raised>>

\* extract_site_and_documents: the rendered-fetch strategy
RunRenderer(exists, p) ==
    /\ pc = "render"
    /\ impl = "main"
    /\ IF ~exists
       THEN /\ pc' = "plain"
            /\ UNCHANGED <<proc, calls, result, raised>>
       ELSE LET o == RenderTry(dsn, p) IN
            /\ proc' = p
            /\ calls' = Append(calls, "render")
            /\ IF o.exc # "" /\ ~RenderCatches(o.exc)
               THEN raised' = TRUE /\ result' = result /\ pc' = "respond"
               ELSE IF o.returned
               THEN raised' = raised /\ result' = o.value /\ pc' = "respond"
               ELSE raised' = raised /\ result' = result /\ pc' = "plain"
    /\ UNCHANGED <<impl, brrts, dsn, net, remote, response>>

\* extract_site_and_documents: return extract_with_requests(dsn)
PlainFetch(n) ==
    /\ pc = "plain"
    /\ impl = "main"
    /\ LET o == extract_with_requests(dsn, n) IN
       /\ net' = n
       /\ calls' = Append(calls, "plain")
       /\ raised' = (o.exc # "")
       /\ result' = o.value
       /\ pc' = "respond"
    /\ UNCHANGED <<impl, brrts, dsn, proc, remote, response>>

\* api_analyze after the call
Respond ==
    /\ pc = "respond"
    /\ impl = "main"
    /\ pc' = "done"
    /\ response' =
        IF raised
        THEN [code |-> 500, body |-> [error |-> "Failed to analyze site"]]
        ELSE IF Truthy(Get(result, "error", None))
        THEN [code |-> 500,
              body |-> [ site_info |-> [dsn |-> dsn],
                         risk_flags |-> [status_label |-> "UNKNOWN"],
                         summary |-> "Error loading site: " \o result["error"],
                         error |-> result["error"] ]]
        ELSE [code |-> 200,
              body |-> [ site_info |-> Get(result, "site_info", [dsn |-> dsn]),
                         risk_flags |-> Get(result, "risk_flags", [status_label |-> "UNKNOWN"]),
                         summary |-> Get(result, "summary", "Site data loaded."),
                         documents_available |-> Len(Get(result, "documents", <<>>)) ]]
    /\ UNCHANGED <<impl, brrts, dsn, proc, net, remote, calls, result, raised>>

---------------------------------------------------------------------------
(* api/index.py: POST /api/analyze, over scrape_dnr_site *)

IndexDefaults(d) ==
    [ dsn |-> d, activity_number |-> "XX-XX-" \o d, status |-> "Not available",
      activity_type |-> "Not available", location_name |-> "Not available",
      address |-> "Not available", municipality |-> "Not available",
      county |-> "Not available", region |-> "Not available",
      start_date |-> "Not available", end_date |-> "Not available" ]

IndexFieldMap == [FieldPositions EXCEPT ![4] = "region"]

\* for idx, key in field_map.items(): if idx < len(values) and values[idx]: ...
RECURSIVE IndexFill(_, _, _)
IndexFill(site_info, values, idx) ==
    IF idx >= Len(IndexFieldMap) THEN site_info
    ELSE IF idx < Len(values) /\ StripStr(values[idx + 1]) # ""
    THEN IndexFill(Put(site_info, IndexFieldMap[idx + 1], StripStr(values[idx + 1])),
                   values, idx + 1)
    ELSE IndexFill(site_info, values, idx + 1)

IndexHeader(page, site_info) ==
    IF page.hdr_num = "" THEN site_info
    ELSE LET a == Put(site_info, "activity_number", page.hdr_num) IN
         IF a["location_name"] \in {"Not available", "Location Name", ""}
         THEN Put(a, "location_name", page.hdr_name) ELSE a

IndexRenderedFlags(site_info, words) ==
    LET status == Upper(Get(site_info, "status", ""))
        a == Put(EmptyDict, "status_label", IF status # "" THEN status ELSE "UNKNOWN")
        b == IF Upper(Get(site_info, "activity_type", "")) = "LUST"
             THEN Put(a, "petroleum", TRUE) ELSE a
        c == IF "pfas" \in words THEN Put(b, "pfas", TRUE) ELSE b
    IN IF words \cap {"arsenic", "lead", "mercury"} # {}
       THEN Put(c, "heavy_metals", TRUE) ELSE c

\* the Browserless branch's link loop: no seen set, only links with a docSeqNo
RECURSIVE IndexRenderedDocs(_, _)
IndexRenderedDocs(links, documents) ==
    IF links = <<>> THEN documents
    ELSE LET full == Absolute(Head(links)) IN
         IF full.seq # ""
         THEN IndexRenderedDocs(Tail(links),
                  Append(documents,
                         [ id |-> Len(documents), download_url |-> HrefStr(full),
                           category |-> "Site File",
                           name |-> "Site File (ID: " \o full.seq \o ")" ]))
         ELSE IndexRenderedDocs(Tail(links), documents)

\* the fallback's flags, from the lower-cased html
IndexPlainFlags(words) ==
    LET a == IF words \cap {"lust", "leaking underground"} # {}
             THEN Put(EmptyDict, "lust", TRUE) ELSE EmptyDict
        b == IF words \cap {"petroleum", "gasoline", "diesel"} # {}
             THEN Put(a, "petroleum", TRUE) ELSE a
        c == IF words \cap {"pfas", "pfoa", "pfos"} # {} THEN Put(b, "pfas", TRUE) ELSE b
        e == IF words \cap {"arsenic", "lead", "mercury"} # {}
             THEN Put(c, "heavy_metals", TRUE) ELSE c
        f == IF "groundwater" \in words /\ words \cap {"contamina", "impact"} # {}
             THEN Put(e, "groundwater", TRUE) ELSE e
    IN IF words \cap {"off-site", "offsite"} # {} THEN Put(f, "offsite_impact", TRUE) ELSE f

\* the fallback's link loop (anchors of the model carry no text)
RECURSIVE IndexPlainDocs(_, _)
IndexPlainDocs(links, documents) ==
    IF links = <<>> THEN documents
    ELSE LET href == Head(links) IN
         IF href.seq # ""
         THEN IndexPlainDocs(Tail(links),
                  Append(documents,
                         [ id |-> Len(documents), name |-> "Document",
                           download_url |-> HrefStr(Absolute(href)),
                           category |-> "Site File", doc_seq_no |-> href.seq ]))
         ELSE IndexPlainDocs(Tail(links), documents)

\* the document-list endpoint's entries, each with its docSeqNo
RECURSIVE IndexApiDocs(_, _)
IndexApiDocs(docs_data, documents) ==
    IF docs_data = <<>> THEN documents
    ELSE IndexApiDocs(Tail(docs_data),
             Append(documents,
                    [ id |-> Len(documents), name |-> "Document " \o Head(docs_data),
                      download_url |-> Host \o "/rrbotw/download-document?docSeqNo="
                                           \o Head(docs_data) \o "&sender=activity",
                      category |-> "Site File", doc_seq_no |-> Head(docs_data),
                      comment |-> "" ]))

\* What the Browserless POST met: no API key configured, an exception, a status
\* other than 200, or the rendered html.
RemoteOutcomes ==
    { [kind |-> k, msg |-> "", page |-> CHOOSE q \in Pages : TRUE] :
        k \in {"nokey", "ConnectionError", "status401"} }
    \cup { [kind |-> "ok", msg |-> "", page |-> p] : p \in Pages }

\* What the two structured-data endpoints gave: a status ("" when the endpoint
\* gave nothing) and the docSeqNo of each listed document.
ApiOutcomes == [status : {"", "OPEN"}, docs : {<<>>, <<"7", "9">>}]

IndexResult(site_info, risk_flags, documents, summary) ==
    [ site_info |-> site_info, risk_flags |-> risk_flags, documents |-> documents,
      summary |-> summary ]

\* scrape_dnr_site: the Browserless branch, when it returns
IndexRendered(d, page) ==
    LET site_info == IndexHeader(page, IndexFill(IndexDefaults(d), page.values, 0))
    IN IndexResult(site_info, IndexRenderedFlags(site_info, page.words),
                   IndexRenderedDocs(page.links, <<>>),
                   Get(site_info, "location_name", "Site") \o " - "
                       \o Get(site_info, "status", "Unknown"))

\* scrape_dnr_site: the fallback.  The pages of the model have no title, no
\* heading, no named input and no label cell, so the three field techniques
\* fill nothing.
IndexFallback(d, n, api) ==
    IF n.kind \in {"ConnectionError", "Timeout"}
    THEN IndexResult(IndexDefaults(d), EmptyDict, <<>>, "Error scraping: " \o n.msg)
    ELSE IF n.kind # "ok"
    THEN IndexResult(IndexDefaults(d), EmptyDict, <<>>, "Failed to fetch page: 500")
    ELSE LET a == IF n.page.hdr_num # ""
                  THEN Put(IndexDefaults(d), "activity_number", n.page.hdr_num)
                  ELSE IndexDefaults(d)
             site_info == IF api.status # "" THEN Put(a, "status", api.status) ELSE a
         IN IndexResult(site_info, IndexPlainFlags(n.page.words),
                        IndexApiDocs(api.docs, IndexPlainDocs(n.page.links, <<>>)),
                        IF site_info["location_name"] # "Not available"
                        THEN site_info["location_name"] \o " - " \o site_info["status"]
                        ELSE "Site " \o d \o " analyzed.")

IndexResponse(r) ==
    [code |-> 200,
     body |-> [ site_info |-> r.site_info, risk_flags |-> r.risk_flags,
                summary |-> r.summary, documents_available |-> Len(r.documents),
                documents |-> r.documents ]]

\* api_analyze up to the call of scrape_dnr_site
IndexAnalyze(id) ==
    /\ pc = "idle"
    /\ impl' = "index"
    /\ brrts' = id
    /\ IF Strip(id) = <<>>
       THEN /\ response' = [code |-> 400, body |-> [error |-> "Missing BRRTS activity ID."]]
            /\ pc' = "done"
            /\ dsn' = dsn
       ELSE /\ dsn' = ExtractDsn(Strip(id))
            /\ pc' = "render"
            /\ response' = response
    /\ UNCHANGED <<proc, net, remote, calls, result, raised>>

\* scrape_dnr_site: Browserless first, and api_analyze's answer when it returns
Browserless(b) ==
    /\ pc = "render"
    /\ impl = "index"
    /\ remote' = b
    /\ IF b.kind = "nokey"
       THEN pc' = "plain" /\ UNCHANGED <<calls, result, response>>
       ELSE /\ calls' = Append(calls, "render")
            /\ IF b.kind = "ok"
               THEN /\ result' = IndexRendered(dsn, b.page)
                    /\ response' = IndexResponse(result')
                    /\ pc' = "done"
               ELSE pc' = "plain" /\ UNCHANGED <<result, response>>
    /\ UNCHANGED <<impl, brrts, dsn, proc, net, raised>>

\* scrape_dnr_site: the fallback, and api_analyze's answer
IndexPlain(n, api) ==
    /\ pc = "plain"
    /\ impl = "index"
    /\ net' = n
    /\ calls' = Append(calls, "plain")
    /\ result' = IndexFallback(dsn, n, api)
    /\ response' = IndexResponse(result')
    /\ pc' = "done"
    /\ UNCHANGED <<impl, brrts, dsn, proc, remote, raised>>

---------------------------------------------------------------------------
(* brrts_client.py *)

LegacyPages ==
    { [cells |-> EmptyDict, caps |-> {}, rows |-> <<>>],
      [cells |-> [Status |-> "Closed"], caps |-> {"LUST", "PFAS"},
       rows |-> << [title |-> "Closure letter", date |-> "2001-02-03", href |-> Rel7] >>] }

LegacyOutcomes ==
    { [kind |-> e.kind, msg |-> e.msg, page |-> p] :
        e \in NetErrors, p \in {CHOOSE q \in LegacyPages : TRUE} }
    \cup { [kind |-> "ok", msg |-> "", page |-> p] : p \in LegacyPages }

LegacyUnavailable(brrts_id) ==
    [ site_info |->
        [ dsn |-> brrts_id, activity_number |-> "ERROR", status |-> "UNAVAILABLE",
          activity_type |-> "UNAVAILABLE", location_name |-> "Could not reach DNR site",
          address |-> "N/A", municipality |-> "N/A", county |-> "N/A",
          dnr_region |-> "N/A", start_date |-> "N/A", end_date |-> "N/A" ],
      risk_flags |->
        [ status_label |-> "UNKNOWN", pfas |-> FALSE, petroleum |-> FALSE,
          heavy_metals |-> FALSE, offsite_impact |-> FALSE ],
      summary |-> "Unable to connect to Wisconsin DNR BRRTS system.",
      documents |-> <<>> ]

\* get_text(label)
LegacyText(page, label) == Get(page.cells, label, "Not available")

RECURSIVE LegacyDocs(_)
LegacyDocs(rows) ==
    IF rows = <<>> THEN <<>>
    ELSE << [ title |-> Head(rows).title, date |-> Head(rows).date,
              url |-> HrefStr(Absolute(Head(rows).href)) ] >> \o LegacyDocs(Tail(rows))

fetch_site_data(brrts_id, n) ==
    IF n.kind # "ok" THEN LegacyUnavailable(brrts_id)
    ELSE [ site_info |->
             [ dsn |-> brrts_id,
               activity_number |-> LegacyText(n.page, "Activity Number"),
               status |-> LegacyText(n.page, "Status"),
               activity_type |-> LegacyText(n.page, "Activity Type"),
               location_name |-> LegacyText(n.page, "Location Name"),
               address |-> LegacyText(n.page, "Address"),
               municipality |-> LegacyText(n.page, "Municipality"),
               county |-> LegacyText(n.page, "County"),
               dnr_region |-> LegacyText(n.page, "DNR Region"),
               start_date |-> LegacyText(n.page, "Start Date"),
               end_date |-> LegacyText(n.page, "End Date") ],
           risk_flags |->
             [ status_label |-> Upper(LegacyText(n.page, "Status")),
               pfas |-> "PFAS" \in n.page.caps,
               petroleum |-> ("PETROLEUM" \in n.page.caps \/ "LUST" \in n.page.caps),
               heavy_metals |-> "METAL" \in n.page.caps,
               offsite_impact |-> "OFFSITE" \in n.page.caps ],
           summary |-> "This summary is generated from publicly available Wisconsin DNR BRRTS data.\n\n1. Regulatory Status\n- Current status is listed as: "
                       \o LegacyText(n.page, "Status") \o ".",
           documents |-> LegacyDocs(n.page.rows) ]

FetchSiteData(id, n) ==
    /\ pc = "idle"
    /\ impl' = "legacy"
    /\ brrts' = id
    /\ dsn' = Join(id)
    /\ net' = n
    /\ calls' = Append(calls, "plain")
    /\ result' = fetch_site_data(Join(id), n)
    /\ pc' = "done"
    /\ UNCHANGED <<proc, remote, raised, response>>

---------------------------------------------------------------------------
(* pdf_extractor.py: text of one document *)

\* the character '\x00'
NUL == "<NUL>"

TextCap == 20000

ResponseCap == 50000

DefaultMaxDocuments == 50

IndexMaxDocuments == 5

MinPdfBytes == 1000

IndexMinBytes == 100

\* s[:n] of a str, n >= 0
Truncate(s, n) == IF Len(s) > n THEN SubSeq(s, 1, n) ELSE s

\* sep.join(parts) of strs kept as character sequences
RECURSIVE JoinSeqs(_, _)
JoinSeqs(parts, sep) ==
    IF parts = <<>> THEN <<>>
    ELSE IF Len(parts) = 1 THEN parts[1]
    ELSE parts[1] \o sep \o JoinSeqs(Tail(parts), sep)

\* re.sub(r'\n{3,}', '\n\n', text); run counts the newlines just passed
RECURSIVE SquashNewlines(_, _)
SquashNewlines(s, run) ==
    IF s = <<>> THEN <<>>
    ELSE IF Head(s) = "\n"
    THEN (IF run < 2 THEN <<"\n">> ELSE <<>>) \o SquashNewlines(Tail(s), run + 1)
    ELSE <<Head(s)>> \o SquashNewlines(Tail(s), 0)

\* re.sub(r'[ \t]+', ' ', text)
RECURSIVE SquashBlanks(_, _)
SquashBlanks(s, inrun) ==
    IF s = <<>> THEN <<>>
    ELSE IF Head(s) \in {" ", "\t"}
    THEN (IF inrun THEN <<>> ELSE <<" ">>) \o SquashBlanks(Tail(s), TRUE)
    ELSE <<Head(s)>> \o SquashBlanks(Tail(s), FALSE)

\* s matches r' *\n' at its start
RECURSIVE SpacesThenNewline(_)
SpacesThenNewline(s) ==
    /\ s # <<>>
    /\ \/ Head(s) = "\n"
       \/ Head(s) = " " /\ SpacesThenNewline(Tail(s))

\* re.sub(r' +\n', '\n', text)
RECURSIVE DropSpacesBeforeNewline(_)
DropSpacesBeforeNewline(s) ==
    IF s = <<>> THEN <<>>
    ELSE IF Head(s) = " " /\ SpacesThenNewline(Tail(s))
    THEN DropSpacesBeforeNewline(Tail(s))
    ELSE <<Head(s)>> \o DropSpacesBeforeNewline(Tail(s))

\* re.sub(r'\x00', '', text)
DropNul(s) == SelectSeq(s, LAMBDA c : c # NUL)

clean_extracted_text(text) ==
    IF text = <<>> THEN <<>>
    ELSE Strip(DropNul(DropSpacesBeforeNewline(SquashBlanks(SquashNewlines(text, 0), FALSE))))

\* The bytes of a response body, as far as the code reads them: how many there
\* are, and what each PDF library makes of them.
\* Optional[bytes]: None
NoneBytes ==
    [ none |-> TRUE, size |-> 0, pypdf |-> [exc |-> "", pages |-> <<>>],
      pdfminer |-> [exc |-> "", text |-> <<>>] ]

Bytes(size, pypdf, pdfminer) ==
    [none |-> FALSE, size |-> size, pypdf |-> pypdf, pdfminer |-> pdfminer]

\* not pdf_content
Falsy(content) == content.none \/ content.size = 0

UrlSeq7 == "https://apps.dnr.wi.gov/rrbotw/download-document?docSeqNo=7&sender=activity"

UrlPdf == "https://apps.dnr.wi.gov/files/PDF/REPORT.PDF"

\* url.endswith('.pdf'), the url as it came
EndsWithLowerCasePdf(url) == FALSE

\* url.lower().endswith('.pdf')
EndsWithPdf(url) == url = UrlPdf

\* 'pdf' in content_type
HasPdf(content_type) == content_type \in {"application/pdf", "application/x-pdf"}

\* What one GET of a document met: requests.get raised (conn), or the server
\* answered with a status, a lower-cased Content-Type and a body.
Answer(conn, status, ctype, body) ==
    [conn |-> conn, status |-> status, ctype |-> ctype, body |-> body]

TextBody ==
    Bytes(2000,
          [exc |-> "", pages |-> << <<"a", " ", "\t", " ", "\n", "\n", "\n", "\n", "b", " ">>,
                                    <<>>,
                                    <<"c", NUL, " ", "\n">> >>],
          [exc |-> "", text |-> <<"a", "\n", "b", "\f">>])

\* pypdf cannot read it, pdfminer can
MinerBody ==
    Bytes(2000, [exc |-> "PdfReadError", pages |-> <<>>], [exc |-> "", text |-> <<" ", "x", "\n">>])

\* a scan: pages without text
ScanBody ==
    Bytes(2000, [exc |-> "", pages |-> << <<>>, <<" ", "\n">> >>], [exc |-> "", text |-> <<"\f", "\f">>])

\* pypdf gets white space only out of it, pdfminer gets text
SpacesBody ==
    Bytes(2000, [exc |-> "", pages |-> << <<" ", "\n">> >>], [exc |-> "", text |-> <<"y", "\n">>])

\* an HTML error page served with status 200
HtmlBody ==
    Bytes(MinPdfBytes, [exc |-> "PdfReadError", pages |-> <<>>], [exc |-> "PDFSyntaxError", text |-> <<>>])

EmptyBody == Bytes(0, [exc |-> "EmptyFileError", pages |-> <<>>], [exc |-> "PDFSyntaxError", text |-> <<>>])

NoFetch == Answer("none", 0, "", NoneBytes)

Fetches ==
    { Answer("ConnectionError", 0, "", NoneBytes),
      Answer("ok", 404, "text/html", HtmlBody),
      Answer("ok", 200, "text/html", HtmlBody),
      Answer("ok", 200, "application/pdf", EmptyBody),
      Answer("ok", 200, "application/pdf", TextBody),
      Answer("ok", 200, "application/octet-stream", MinerBody),
      Answer("ok", 200, "application/pdf", ScanBody),
      Answer("ok", 200, "application/pdf", SpacesBody) }

\* str(e) of what the GET or the reader raised
Message(exc) ==
    CASE exc = "ConnectionError" -> "Max retries exceeded"
      [] exc = "PdfReadError" -> "EOF marker not found"
      [] exc = "EmptyFileError" -> "Cannot read an empty file"
      [] exc = "ModuleNotFoundError" -> "No module named 'pypdf'"
      [] OTHER -> exc

\* the try body of download_pdf_content
DownloadTry(url, e) ==
    IF e.conn # "ok" THEN Raise(e.conn)
    ELSE IF e.status >= 400 THEN Raise("HTTPError")
    ELSE IF HasPdf(e.ctype) \/ EndsWithPdf(url) \/ e.body.size > MinPdfBytes
    THEN Return(e.body)
    ELSE Return(NoneBytes)

\* a download_pdf_content without its except clause
DownloadCatchesNothing(exc) == FALSE

\* except Exception
DownloadCatches(exc) == IsException(exc)

download_pdf_content(url, e) ==
    LET t == DownloadTry(url, e)
    IN IF t.exc # "" /\ DownloadCatches(t.exc) THEN Return(NoneBytes) ELSE t

\* the pages whose text is not empty
NonEmpty(pages) == SelectSeq(pages, LAMBDA p : p # <<>>)

extract_text_pypdf(pdf_content) ==
    IF ~PYPDF_AVAILABLE THEN <<>>
    ELSE IF pdf_content.pypdf.exc # "" THEN <<>>
    ELSE JoinSeqs(NonEmpty(pdf_content.pypdf.pages), <<"\n", "\n">>)

extract_text_pdfminer(pdf_content) ==
    IF ~PDFMINER_AVAILABLE THEN <<>>
    ELSE IF pdf_content.pdfminer.exc # "" THEN <<>>
    ELSE pdf_content.pdfminer.text

\* not text, in place of not text.strip()
IsEmpty(text) == text = <<>>

\* not text.strip()
Blank(text) == Strip(text) = <<>>

\* extract_text_from_pdf(pdf_content): the backends it calls, in order, and
\* the text it returns
ExtractRun(pdf_content) ==
    LET text == IF PYPDF_AVAILABLE THEN extract_text_pypdf(pdf_content) ELSE <<>>
        falls_back == Blank(text) /\ PDFMINER_AVAILABLE
        text2 == IF falls_back THEN extract_text_pdfminer(pdf_content) ELSE text
    IN [ tried |-> (IF PYPDF_AVAILABLE THEN <<"pypdf">> ELSE <<>>)
                       \o (IF falls_back THEN <<"pdfminer">> ELSE <<>>),
         text |-> clean_extracted_text(text2) ]

extract_text_from_pdf(pdf_content) == ExtractRun(pdf_content).text

\* extract_document_text(doc) when the GET, if one is made, meets e
\* a result that starts from the url alone
OnlyUrl(doc) ==
    IF Has(doc, "download_url") THEN [download_url |-> doc["download_url"]] ELSE EmptyDict

\* doc.copy(): a new dict with the keys and values of doc
Copy(doc) == doc

extract_document_text(doc, e) ==
    LET url == Get(doc, "download_url", None)
        res == Put(Put(Copy(doc), "extracted_text", ""), "extraction_status", "no_url")
    IN IF ~Truthy(url) THEN Return(res)
       ELSE LET d == download_pdf_content(url, e)
            IN IF d.exc # "" THEN Raise(d.exc)
               ELSE IF Falsy(d.value)
               THEN Return(Put(res, "extraction_status", "download_failed"))
               ELSE LET text == extract_text_from_pdf(d.value)
                    IN IF text # <<>>
                       THEN Return(Put(Put(Put(res, "extracted_text", Join(text)),
                                           "extraction_status", "success"),
                                       "text_length", Len(text)))
                       ELSE Return(Put(res, "extraction_status", "extraction_failed"))

\* the GETs extract_document_text(doc) makes
Requests(doc) ==
    IF Truthy(Get(doc, "download_url", None)) THEN <<doc["download_url"]>> ELSE <<>>

---------------------------------------------------------------------------
(* pdf_extractor.py: extract_all_documents *)

\* Document dicts a caller sends.  The first is one that an earlier extraction
\* already marked.
DocDicts ==
    { [ name |-> <<"A">>, download_url |-> UrlSeq7,
        extracted_text |-> "old text", extraction_status |-> "success" ],
      [ name |-> <<"B">>, date |-> "2020-01-02", download_url |-> UrlPdf ],
      [ name |-> <<"C">>, download_url |-> "" ],
      [ category |-> "Site File" ] }

MaxDocs == 2

DocLists == UNION {[1..n -> DocDicts] : n \in 0..MaxDocs}

\* the max_documents a caller passes when it passes one
Limits == (-1)..MaxDocs

\* where s[:m] stops: m counts from the end when negative
SliceStop(s, m) ==
    IF m >= 0 THEN (IF m < Len(s) THEN m ELSE Len(s))
    ELSE (IF Len(s) + m > 0 THEN Len(s) + m ELSE 0)

\* s[m:]
SliceFrom(s, m) == SubSeq(s, SliceStop(s, m) + 1, Len(s))

\* s[:m]
Slice(s, m) == SubSeq(s, 1, SliceStop(s, m))

RECURSIVE Repeat(_, _)
Repeat(s, n) == IF n = 0 THEN "" ELSE s \o Repeat(s, n - 1)

RECURSIVE JoinStr(_, _)
JoinStr(parts, sep) ==
    IF parts = <<>> THEN ""
    ELSE IF Len(parts) = 1 THEN parts[1]
    ELSE parts[1] \o sep \o JoinStr(Tail(parts), sep)

\* f"=== Document {i+1}: {doc.get('name', 'Unknown')} ({doc.get('date', 'No date')}) ===\n"
DocHeader(i, doc) ==
    "=== Document " \o ToString(i + 1) \o ": "
        \o (IF Has(doc, "name") THEN Join(doc["name"]) ELSE "Unknown")
        \o " (" \o Get(doc, "date", "No date") \o ") ===\n"

CombinedText(parts) ==
    IF parts # <<>> THEN "\n\n" \o Repeat("=", 80) \o JoinStr(parts, "\n\n") ELSE ""

NoExtractResponse == [code |-> 0, body |-> EmptyDict]

ExtractInit ==
    /\ xpc = "idle"
    /\ ximpl = "none"
    /\ PYPDF_AVAILABLE \in BOOLEAN
    /\ PDFMINER_AVAILABLE \in BOOLEAN
    /\ doc_list = <<>>
    /\ limit_given = FALSE
    /\ max_documents = DefaultMaxDocuments
    /\ taken = 0
    /\ results = <<>>
    /\ all_text_parts = <<>>
    /\ combined_text = ""
    /\ combined_chars = <<>>
    /\ fetched = <<>>
    /\ env = <<>>
    /\ xraised = FALSE
    /\ xresponse = NoExtractResponse

\* extract_all_documents(docs) or extract_all_documents(docs, limit) is called
ExtractAll(docs, given, limit) ==
    /\ xpc = "idle"
    /\ xpc' = "loop"
    /\ ximpl' = "batch"
    /\ doc_list' = docs
    /\ limit_given' = given
    /\ max_documents' = IF given THEN limit ELSE DefaultMaxDocuments
    /\ UNCHANGED <<PYPDF_AVAILABLE, PDFMINER_AVAILABLE, taken, results, all_text_parts,
                   combined_text, combined_chars, fetched, env, xraised, xresponse>>

\* one turn of the loop over documents[:max_documents]
ExtractOne(e) ==
    /\ xpc = "loop"
    /\ ximpl \in {"batch", "main"}
    /\ taken < Len(Slice(doc_list, max_documents))
    /\ LET doc == Slice(doc_list, max_documents)[taken + 1]
           r == extract_document_text(doc, e)
       IN /\ (Requests(doc) = <<>>) = (e = NoFetch)
          /\ env' = Append(env, e)
          /\ fetched' = fetched \o [n \in 1..Len(Requests(doc)) |-> <<taken + 1, Requests(doc)[n]>>]
          /\ IF r.exc # ""
             THEN /\ xraised' = TRUE
                  /\ xpc' = "done"
                  /\ UNCHANGED <<taken, results, all_text_parts>>
             ELSE /\ results' = Append(results, r.value)
                  /\ all_text_parts' =
                        IF Get(r.value, "extracted_text", "") # ""
                        THEN Append(all_text_parts,
                                    DocHeader(taken, doc) \o r.value["extracted_text"])
                        ELSE all_text_parts
                  /\ taken' = taken + 1
                  /\ UNCHANGED <<xpc, xraised>>
          \* api_extract_documents: except Exception as e
          /\ xresponse' =
                IF r.exc # "" /\ ximpl = "main"
                THEN [code |-> 500,
                      body |-> [error |-> "Extraction failed: " \o Message(r.exc)]]
                ELSE xresponse
    /\ UNCHANGED <<ximpl, PYPDF_AVAILABLE, PDFMINER_AVAILABLE, doc_list, limit_given,
                   max_documents, combined_text, combined_chars>>

\* the loop is over: return results, combined_text
ExtractReturn ==
    /\ xpc = "loop"
    /\ ximpl = "batch"
    /\ taken = Len(Slice(doc_list, max_documents))
    /\ xpc' = "done"
    /\ combined_text' = CombinedText(all_text_parts)
    /\ UNCHANGED <<ximpl, PYPDF_AVAILABLE, PDFMINER_AVAILABLE, doc_list, limit_given,
                   max_documents, taken, results, all_text_parts, combined_chars, fetched, env,
                   xraised, xresponse>>

---------------------------------------------------------------------------
(* main.py: POST /api/documents/extract, over extract_all_documents *)

\* sum(1 for d in extracted if d.get('extraction_status') == 'success')
Successful(extracted) ==
    Len(SelectSeq(extracted, LAMBDA d : Get(d, "extraction_status", None) = "success"))

MainMaxDocuments == 20

\* a request with one document more than the endpoint takes, none with a url
LongList == [i \in 1..(MainMaxDocuments + 1) |-> [category |-> "Site File"]]

\* api_extract_documents up to the loop of extract_all_documents
MainExtract(docs) ==
    /\ xpc = "idle"
    /\ ximpl' = "main"
    /\ doc_list' = docs
    /\ limit_given' = TRUE
    /\ max_documents' = MainMaxDocuments
    /\ IF docs = <<>>
       THEN /\ xpc' = "done"
            /\ xresponse' = [code |-> 400, body |-> [error |-> "No documents provided."]]
       ELSE IF ~(PYPDF_AVAILABLE \/ PDFMINER_AVAILABLE)
       THEN /\ xpc' = "done"
            /\ xresponse' =
                  [code |-> 500,
                   body |-> [error |-> "PDF extraction libraries not available. "
                                          \o "Install pypdf or pdfminer.six."]]
       ELSE /\ xpc' = "loop"
            /\ UNCHANGED xresponse
    /\ UNCHANGED <<PYPDF_AVAILABLE, PDFMINER_AVAILABLE, taken, results, all_text_parts,
                   combined_text, combined_chars, fetched, env, xraised>>

\* the loop is over: extract_all_documents returns and the endpoint answers
\* (risk_analysis is left out of the body)
MainExtractReturn ==
    /\ xpc = "loop"
    /\ ximpl = "main"
    /\ taken = Len(Slice(doc_list, max_documents))
    /\ xpc' = "done"
    /\ combined_text' = CombinedText(all_text_parts)
    /\ xresponse' =
          [ code |-> 200,
            body |-> [ documents |-> results,
                       combined_text |-> CombinedText(all_text_parts),
                       extraction_summary |->
                           [ total |-> Len(doc_list),
                             successful |-> Successful(results),
                             failed |-> Len(doc_list) - Successful(results),
                             total_text_length |-> Len(CombinedText(all_text_parts)) ] ] ]
    /\ UNCHANGED <<ximpl, PYPDF_AVAILABLE, PDFMINER_AVAILABLE, doc_list, limit_given,
                   max_documents, taken, results, all_text_parts, combined_chars, fetched, env,
                   xraised>>

---------------------------------------------------------------------------
(* api/index.py: POST /api/documents/extract *)

\* the try body around the reader
IndexReadTry(body) ==
    IF ~PYPDF_AVAILABLE THEN Raise("ModuleNotFoundError")
    ELSE IF body.pypdf.exc # "" THEN Raise(body.pypdf.exc)
    ELSE Return(JoinSeqs(body.pypdf.pages, <<"\n">>))

\* the document after one turn of the loop of api_extract
IndexExtractDoc(doc, e) ==
    IF e.conn # "ok"
    THEN Put(doc, "extraction_status", "error: " \o Message(e.conn))
    ELSE IF e.status = 200 /\ e.body.size > IndexMinBytes
    THEN LET t == IndexReadTry(e.body)
         IN IF t.exc # ""
            THEN Put(doc, "extraction_status", "pdf_error: " \o Message(t.exc))
            ELSE Put(Put(doc, "extracted_text", Join(Truncate(t.value, TextCap))),
                     "extraction_status", "success")
    ELSE Put(doc, "extraction_status", "download_failed: " \o ToString(e.status))

\* what a successful turn adds to combined_text
IndexChunk(doc, e) ==
    IF e.conn = "ok" /\ e.status = 200 /\ e.body.size > IndexMinBytes
       /\ IndexReadTry(e.body).exc = ""
    THEN <<"\n", "\n", "=", "=", "=", " ">>
            \o (IF Has(doc, "name") THEN doc["name"] ELSE <<"D", "o", "c", "u", "m", "e", "n", "t">>)
            \o <<" ", "=", "=", "=", "\n">>
            \o Truncate(IndexReadTry(e.body).value, TextCap)
    ELSE <<>>

\* api_extract up to its loop
IndexExtract(docs) ==
    /\ xpc = "idle"
    /\ ximpl' = "index"
    /\ doc_list' = docs
    /\ limit_given' = TRUE
    /\ max_documents' = IndexMaxDocuments
    /\ IF docs = <<>>
       THEN /\ xpc' = "done"
            /\ xresponse' = [code |-> 400, body |-> [error |-> "No documents provided."]]
       ELSE /\ xpc' = "loop"
            /\ UNCHANGED xresponse
    /\ UNCHANGED <<PYPDF_AVAILABLE, PDFMINER_AVAILABLE, taken, results, all_text_parts,
                   combined_text, combined_chars, fetched, env, xraised>>

\* one turn of the loop over documents[:5]; the dict of the request is the one
\* that is written to and appended
IndexExtractOne(e) ==
    /\ xpc = "loop"
    /\ ximpl = "index"
    /\ taken < Len(Slice(doc_list, max_documents))
    /\ LET doc == doc_list[taken + 1]
           url == Get(doc, "download_url", "")
       IN /\ (~Truthy(url)) = (e = NoFetch)
          /\ env' = Append(env, e)
          /\ taken' = taken + 1
          /\ IF ~Truthy(url)
             THEN UNCHANGED <<doc_list, results, combined_chars, fetched>>
             ELSE /\ fetched' = Append(fetched, <<taken + 1, url>>)
                  /\ doc_list' =
                        [doc_list EXCEPT ![taken + 1] = IndexExtractDoc(doc, e)]
                  /\ results' = Append(results, IndexExtractDoc(doc, e))
                  /\ combined_chars' = combined_chars \o IndexChunk(doc, e)
    /\ UNCHANGED <<xpc, ximpl, PYPDF_AVAILABLE, PDFMINER_AVAILABLE, limit_given,
                   max_documents, all_text_parts, combined_text, xraised, xresponse>>

\* the loop is over: the JSON answer
IndexExtractReturn ==
    /\ xpc = "loop"
    /\ ximpl = "index"
    /\ taken = Len(Slice(doc_list, max_documents))
    /\ xpc' = "done"
    /\ combined_text' = Join(Truncate(combined_chars, ResponseCap))
    /\ xresponse' =
          [ code |-> 200,
            body |-> [ documents |-> results,
                       combined_text |-> Join(Truncate(combined_chars, ResponseCap)),
                       risk_analysis |-> [risk_flags |-> EmptyDict],
                       extraction_summary |->
                           [ total |-> Len(doc_list),
                             successful |-> Successful(results),
                             failed |-> Len(doc_list) - Successful(results),
                             total_text_length |-> Len(combined_chars) ] ] ]
    /\ UNCHANGED <<ximpl, PYPDF_AVAILABLE, PDFMINER_AVAILABLE, doc_list, limit_given,
                   max_documents, taken, results, all_text_parts, combined_chars, fetched, env,
                   xraised>>

---------------------------------------------------------------------------
(* filedownload.py: download sessions *)

Sids == {"s1", "s2"}

\* session ids of which one names a path inside the directory of the other
NestedSids == {"s1", "s1/x"}

AllSids == Sids \cup NestedSids

\* Path(tempfile.gettempdir()) / "brrts_documents" / session_id
BaseDir(sid) == "/tmp/brrts_documents/" \o sid

\* the path inner is the path outer or lies inside it
Within(inner, outer) == inner = outer \/ \E tail \in {"/x"} : inner = outer \o tail

\* base_dir.mkdir(parents=True, exist_ok=True): the session directories that
\* exist once that of sid has been made
Made(sid) == {d \in AllSids : Within(sid, d)}

\* A Path under a session directory: dest_dir / name.  Optional[Path]: None is
\* NoPath.
PathOf(dir, name) == [dir |-> dir, name |-> name]

NoPath == [dir |-> "", name |-> ""]

\* Document dicts a caller asks a session for.  The second has a falsy id and
\* an empty name, the third no url, the fourth a name that is no str.
SessionDocs ==
    { [ id |-> 7, name |-> "a/b.pdf", download_url |-> UrlSeq7 ],
      [ id |-> 0, name |-> "", download_url |-> UrlPdf ],
      [ id |-> 7, name |-> "a/b.pdf", download_url |-> "" ],
      [ id |-> 9, name |-> None, download_url |-> UrlPdf ] }

\* Documents of two discovery calls: the id and the name of the first above
\* come again with another url
RepeatedIdDocs ==
    SessionDocs \cup { [ id |-> 7, name |-> "a/b.pdf", download_url |-> UrlPdf ] }

\* doc.get("id") or url, as a key of downloaded_files: an int and a str are
\* different keys
DocId(doc) ==
    IF Has(doc, "id") /\ doc["id"] # 0 THEN "int:" \o ToString(doc["id"])
    ELSE "str:" \o doc["download_url"]

\* filename.replace("/", "_").replace("\\", "_")
Sanitize(name) ==
    CASE name = "a/b.pdf" -> "a_b.pdf"
      [] name = "a\\b.pdf" -> "a_b.pdf"
      [] OTHER -> name

\* Content-Disposition headers
Dispositions == {"", "attachment; filename=\"document.pdf\""}

\* _derive_filename(response, None)
derive_filename(header) ==
    CASE header = "attachment; filename=\"document.pdf\"" -> "document.pdf"
      [] OTHER -> "downloaded_document.pdf"

\* candidate.stem
Stem(name) ==
    CASE name = "a_b.pdf" -> "a_b"
      [] name = "document.pdf" -> "document"
      [] name = "downloaded_document.pdf" -> "downloaded_document"
      [] OTHER -> name

\* candidate.suffix
Suffix(name) == IF Stem(name) = name THEN "" ELSE ".pdf"

MaxFiles == 2

\* the while loop of _unique_path
RECURSIVE Probe(_, _, _, _)
Probe(dest_dir, name, counter, on_disk) ==
    LET new_candidate ==
            PathOf(dest_dir, Stem(name) \o "_" \o ToString(counter) \o Suffix(name))
    IN IF new_candidate \notin on_disk THEN new_candidate
       ELSE Probe(dest_dir, name, counter + 1, on_disk)

\* _unique_path(dest_dir, name) over the files on disk
unique_path(dest_dir, name, on_disk) ==
    IF PathOf(dest_dir, name) \notin on_disk THEN PathOf(dest_dir, name)
    ELSE Probe(dest_dir, name, 1, on_disk)

\* What the streamed GET of download_file met: requests.get raised,
\* raise_for_status raised, the body broke off while it was written, or all of
\* it came; cd is the Content-Disposition header of an answer.
Gets ==
    { [kind |-> "ConnectionError", cd |-> ""],
      [kind |-> "HTTPError", cd |-> ""],
      [kind |-> "ChunkedEncodingError", cd |-> ""] }
    \cup { [kind |-> "ok", cd |-> cd] : cd \in Dispositions }

NoGet == [kind |-> "none", cd |-> ""]

\* download_file(url, dest_dir, filename): the exception it ends with if any,
\* the path it returns, and the file it created
download_file(url, dest_dir, filename, e, on_disk) ==
    IF e.kind \in {"ConnectionError", "HTTPError"}
    THEN [exc |-> e.kind, path |-> NoPath, wrote |-> NoPath]
    ELSE LET target_name == IF filename # "" THEN filename ELSE derive_filename(e.cd)
             target_path == unique_path(dest_dir, target_name, on_disk)
         IN IF e.kind = "ok"
            THEN [exc |-> "", path |-> target_path, wrote |-> target_path]
            ELSE [exc |-> e.kind, path |-> NoPath, wrote |-> target_path]

\* a download_document that never finds its document downloaded
NeverHit(downloaded_files, doc_id) == FALSE

\* doc_id in self.downloaded_files
CacheHit(downloaded_files, doc_id) == Has(downloaded_files, doc_id)

\* a download_document that catches what requests raises and nothing else
SessionCatchesRequests(exc) ==
    exc \in {"ConnectionError", "HTTPError", "ChunkedEncodingError"}

\* except Exception, around the body of download_document
SessionCatches(exc) == TRUE

\* a cleanup_session that takes every session id for a registered one
AlwaysRegistered(registry, sid) == TRUE

\* session_id in _sessions
Registered(registry, sid) == Has(registry, sid)

\* a cleanup that leaves downloaded_files as it is
NotCleared(downloaded_files) == downloaded_files

\* self.downloaded_files.clear()
Cleared(downloaded_files) == EmptyDict

NoCall ==
    [ op |-> "none", sid |-> "", doc_id |-> "", known |-> FALSE, hit |-> FALSE,
      cached |-> NoPath, fetch |-> FALSE, wrote |-> NoPath, fresh |-> FALSE,
      ret |-> NoPath, removed |-> FALSE, emptied |-> EmptyDict,
      got |-> "none", exc |-> "", url |-> "" ]

Range(f) == {f[x] : x \in DOMAIN f}

\* What is kept of the call before a download: a download by the same session
\* id of the same identity, or a cleanup of that session id which emptied a
\* mapping with that identity (emptied, which the get_or_create_session that
\* follows a cleanup passes on), or nothing.
Earlier(call, sid, doc_id) ==
    IF /\ call.sid = sid
       /\ doc_id # ""
       /\ \/ call.op = "download" /\ call.doc_id = doc_id
          \/ call.op # "download" /\ Has(call.emptied, doc_id)
    THEN call ELSE NoCall

\* What is kept of the call before a cleanup: a cleanup of the same session
\* id, or nothing.
EarlierCleanup(call, sid) ==
    IF call.sid = sid /\ call.op \in {"cleanup", "cleanup_session"}
    THEN call ELSE NoCall

SessionInit ==
    /\ sessions = EmptyDict
    /\ dirs = {}
    /\ files = {}
    /\ returned = [sid \in AllSids |-> EmptyDict]
    /\ origin = EmptyDict
    /\ last = NoCall
    /\ prev = NoCall

\* get_or_create_session(session_id)
GetOrCreateSession(sid) ==
    /\ IF ~Has(sessions, sid)
       THEN /\ sessions' = Put(sessions, sid, EmptyDict)
            /\ dirs' = dirs \cup Made(sid)
       ELSE UNCHANGED <<sessions, dirs>>
    /\ last' = [NoCall EXCEPT !.op = "get", !.sid = sid, !.known = Has(sessions, sid),
                              !.emptied = IF last.sid = sid THEN last.emptied
                                          ELSE EmptyDict]
    /\ prev' = NoCall
    /\ UNCHANGED <<files, returned, origin>>

\* get_or_create_session(session_id).download_document(doc) on a session that
\* is registered
DownloadDocument(sid, doc, e) ==
    /\ Has(sessions, sid)
    /\ LET url == Get(doc, "download_url", None)
           doc_id == IF Truthy(url) THEN DocId(doc) ELSE ""
           hit == Truthy(url) /\ CacheHit(sessions[sid], doc_id)
           filename == Get(doc, "name", "document.pdf")
           gets == Truthy(url) /\ ~hit /\ filename # None
           d == download_file(url, BaseDir(sid), Sanitize(filename), e, files)
           \* what the try body raised: None.replace, or what download_file raised
           err == IF Truthy(url) /\ ~hit /\ filename = None THEN "AttributeError"
                  ELSE IF gets THEN d.exc ELSE ""
           escapes == IF err # "" /\ ~SessionCatches(err) THEN err ELSE ""
           call == [NoCall EXCEPT !.op = "download", !.sid = sid, !.doc_id = doc_id,
                                  !.known = Truthy(url) /\ Has(sessions[sid], doc_id),
                                  !.hit = hit,
                                  !.url = IF Truthy(url) THEN url ELSE "",
                                  !.cached = IF Truthy(url)
                                             THEN Get(sessions[sid], doc_id, NoPath)
                                             ELSE NoPath]
       IN /\ gets = (e # NoGet)
          /\ e.cd # "" => gets /\ filename = ""
          /\ gets /\ d.wrote # NoPath => Cardinality(files) < MaxFiles
          /\ prev' = Earlier(last, sid, doc_id)
          /\ IF ~gets
             THEN /\ last' = [call EXCEPT !.ret = IF hit THEN sessions[sid][doc_id] ELSE NoPath,
                                          !.exc = escapes]
                  /\ UNCHANGED <<sessions, dirs, files, returned, origin>>
             ELSE /\ dirs' = dirs \cup Made(sid)
                  /\ files' = IF d.wrote # NoPath THEN files \cup {d.wrote} ELSE files
                  /\ origin' = IF d.wrote # NoPath THEN Put(origin, d.wrote, url) ELSE origin
                  /\ sessions' = IF d.exc = ""
                                 THEN [sessions EXCEPT ![sid] = Put(@, doc_id, d.path)]
                                 ELSE sessions
                  /\ returned' = IF d.path # NoPath
                                 THEN [returned EXCEPT ![sid] = Put(@, doc_id, d.path)]
                                 ELSE returned
                  /\ last' = [call EXCEPT !.fetch = TRUE, !.got = e.kind, !.exc = escapes,
                                          !.wrote = d.wrote,
                                          !.fresh = d.wrote # NoPath /\ d.wrote \notin files,
                                          !.ret = d.path]

\* rmtree(base_dir, ignore_errors=True): the tree is gone, or an error was
\* ignored and it is all still there
AfterRmtree(sid, removed) ==
    /\ sid \notin dirs => removed
    /\ dirs' = IF removed THEN {d \in dirs : ~Within(d, sid)} ELSE dirs
    /\ files' = IF removed THEN {f \in files : ~Within(f.dir, BaseDir(sid))} ELSE files
    /\ origin' = IF removed
                 THEN [f \in {g \in DOMAIN origin : ~Within(g.dir, BaseDir(sid))} |-> origin[f]]
                 ELSE origin

\* DocumentSession.cleanup() of a registered session
Cleanup(sid, removed) ==
    /\ Has(sessions, sid)
    /\ AfterRmtree(sid, removed)
    /\ sessions' = [sessions EXCEPT ![sid] = Cleared(@)]
    /\ returned' = [returned EXCEPT ![sid] = EmptyDict]
    /\ last' = [NoCall EXCEPT !.op = "cleanup", !.sid = sid, !.known = TRUE,
                              !.removed = removed, !.emptied = sessions[sid]]
    /\ prev' = EarlierCleanup(last, sid)

\* cleanup_session(session_id)
CleanupSession(sid, removed) ==
    /\ IF Registered(sessions, sid) /\ Has(sessions, sid)
       THEN /\ AfterRmtree(sid, removed)
            /\ sessions' = [x \in DOMAIN sessions \ {sid} |->
                               [sessions EXCEPT ![sid] = Cleared(@)][x]]
            /\ returned' = [returned EXCEPT ![sid] = EmptyDict]
       ELSE /\ removed
            /\ UNCHANGED <<sessions, dirs, files, returned, origin>>
    /\ last' = [NoCall EXCEPT !.op = "cleanup_session", !.sid = sid,
                              !.known = Has(sessions, sid), !.removed = removed,
                              !.emptied = Get(sessions, sid, EmptyDict),
                              \* _sessions[session_id] of an id that is not there
                              !.exc = IF Registered(sessions, sid) /\ ~Has(sessions, sid)
                                      THEN "KeyError" ELSE ""]
    /\ prev' = EarlierCleanup(last, sid)

---------------------------------------------------------------------------
(* pdf_extractor.py: risk indicators in extracted text.  A text is a       *)
(* sequence of one-character strings.                                      *)

Letters ==
    << "a", "b", "c", "d", "e", "f", "g", "h", "i", "j", "k", "l", "m",
       "n", "o", "p", "q", "r", "s", "t", "u", "v", "w", "x", "y", "z" >>

Capitals ==
    << "A", "B", "C", "D", "E", "F", "G", "H", "I", "J", "K", "L", "M",
       "N", "O", "P", "Q", "R", "S", "T", "U", "V", "W", "X", "Y", "Z" >>

\* a str.lower() that changes no character
KeepCase(c) == c

\* str.lower() of one character
LowerChar(c) ==
    IF \E i \in 1..Len(Capitals) : Capitals[i] = c
    THEN Letters[CHOOSE i \in 1..Len(Capitals) : Capitals[i] = c]
    ELSE c

\* text.lower()
TextLower(s) == [i \in 1..Len(s) |-> LowerChar(s[i])]

\* kw in text_lower
Occurs(kw, s) ==
    \E i \in 1..(Len(s) - Len(kw) + 1) : SubSeq(s, i, i + Len(kw) - 1) = kw

\* any(kw in text_lower for kw in keywords)
AnyOf(keywords, s) == \E kw \in keywords : Occurs(kw, s)

\* the keyword lists of the seven flags
Vocabulary ==
    [ pfas |->
          { <<"p", "f", "a", "s">>,
            <<"p", "f", "o", "a">>,
            <<"p", "f", "o", "s">>,
            <<"p", "e", "r", "f", "l", "u", "o", "r">>,
            <<"f", "o", "r", "e", "v", "e", "r", " ", "c", "h", "e", "m", "i", "c", "a", "l">> },
      petroleum |->
          { <<"p", "e", "t", "r", "o", "l", "e", "u", "m">>,
            <<"g", "a", "s", "o", "l", "i", "n", "e">>,
            <<"d", "i", "e", "s", "e", "l">>,
            <<"b", "t", "e", "x">>,
            <<"b", "e", "n", "z", "e", "n", "e">>,
            <<"t", "o", "l", "u", "e", "n", "e">>,
            <<"e", "t", "h", "y", "l", "b", "e", "n", "z", "e", "n", "e">>,
            <<"x", "y", "l", "e", "n", "e">>,
            <<"f", "u", "e", "l", " ", "o", "i", "l">>,
            <<"h", "e", "a", "t", "i", "n", "g", " ", "o", "i", "l">>,
            <<"u", "s", "t", " ">>,
            <<"u", "n", "d", "e", "r", "g", "r", "o", "u", "n", "d", " ", "s", "t", "o", "r", "a", "g", "e", " ", "t", "a", "n", "k">>,
            <<"l", "u", "s", "t">>,
            <<"l", "e", "a", "k", "i", "n", "g", " ", "u", "n", "d", "e", "r", "g", "r", "o", "u", "n", "d">> },
      heavy_metals |->
          { <<"a", "r", "s", "e", "n", "i", "c">>,
            <<"l", "e", "a", "d">>,
            <<"c", "h", "r", "o", "m", "i", "u", "m">>,
            <<"m", "e", "r", "c", "u", "r", "y">>,
            <<"c", "a", "d", "m", "i", "u", "m">>,
            <<"h", "e", "a", "v", "y", " ", "m", "e", "t", "a", "l">>,
            <<"m", "e", "t", "a", "l", "s", " ", "c", "o", "n", "t", "a", "m", "i", "n", "a", "t", "i", "o", "n">> },
      chlorinated_solvents |->
          { <<"t", "c", "e">>,
            <<"p", "c", "e">>,
            <<"c", "h", "l", "o", "r", "i", "n", "a", "t", "e", "d">>,
            <<"t", "r", "i", "c", "h", "l", "o", "r", "o", "e", "t", "h", "y", "l", "e", "n", "e">>,
            <<"t", "e", "t", "r", "a", "c", "h", "l", "o", "r", "o", "e", "t", "h", "y", "l", "e", "n", "e">>,
            <<"v", "i", "n", "y", "l", " ", "c", "h", "l", "o", "r", "i", "d", "e">>,
            <<"d", "c", "e">>,
            <<"s", "o", "l", "v", "e", "n", "t">> },
      offsite_impact |->
          { <<"o", "f", "f", "-", "s", "i", "t", "e">>,
            <<"o", "f", "f", "s", "i", "t", "e">>,
            <<"m", "i", "g", "r", "a", "t", "e", "d">>,
            <<"p", "l", "u", "m", "e">>,
            <<"g", "r", "o", "u", "n", "d", "w", "a", "t", "e", "r", " ", "i", "m", "p", "a", "c", "t">>,
            <<"v", "a", "p", "o", "r", " ", "i", "n", "t", "r", "u", "s", "i", "o", "n">>,
            <<"n", "e", "i", "g", "h", "b", "o", "r", "i", "n", "g", " ", "p", "r", "o", "p", "e", "r", "t", "y">> },
      groundwater_impact |->
          { <<"g", "r", "o", "u", "n", "d", "w", "a", "t", "e", "r">>,
            <<"a", "q", "u", "i", "f", "e", "r">>,
            <<"w", "e", "l", "l", " ", "c", "o", "n", "t", "a", "m", "i", "n", "a", "t", "i", "o", "n">>,
            <<"d", "r", "i", "n", "k", "i", "n", "g", " ", "w", "a", "t", "e", "r">> },
      soil_contamination |->
          { <<"s", "o", "i", "l", " ", "c", "o", "n", "t", "a", "m", "i", "n", "a", "t", "i", "o", "n">>,
            <<"c", "o", "n", "t", "a", "m", "i", "n", "a", "t", "e", "d", " ", "s", "o", "i", "l">>,
            <<"s", "o", "i", "l", " ", "v", "a", "p", "o", "r">> } ]

\* a closure list without "no further action"
closure_keywords_short ==
    { <<"c", "a", "s", "e", " ", "c", "l", "o", "s", "e", "d">>,
      <<"n", "f", "a">>,
      <<"c", "l", "o", "s", "u", "r", "e">>,
      <<"c", "l", "o", "s", "e", "d">> }

closure_keywords ==
    { <<"c", "a", "s", "e", " ", "c", "l", "o", "s", "e", "d">>,
      <<"n", "o", " ", "f", "u", "r", "t", "h", "e", "r", " ", "a", "c", "t", "i", "o", "n">>,
      <<"n", "f", "a">>,
      <<"c", "l", "o", "s", "u", "r", "e">>,
      <<"c", "l", "o", "s", "e", "d">> }

open_keywords ==
    { <<"o", "p", "e", "n", " ", "c", "a", "s", "e">>,
      <<"o", "n", "g", "o", "i", "n", "g">>,
      <<"a", "c", "t", "i", "v", "e", " ", "r", "e", "m", "e", "d", "i", "a", "t", "i", "o", "n">>,
      <<"m", "o", "n", "i", "t", "o", "r", "i", "n", "g", " ", "r", "e", "q", "u", "i", "r", "e", "d">> }

\* analyze_extracted_text_for_risks(text), for a text without a digit: the
\* concentration pattern needs one, so that re.findall finds nothing
analyze_extracted_text_for_risks(text) ==
    LET text_lower == TextLower(text)
        risks == [key \in DOMAIN Vocabulary |-> AnyOf(Vocabulary[key], text_lower)]
        has_closure == AnyOf(closure_keywords, text_lower)
        has_open == AnyOf(open_keywords, text_lower)
        status == IF has_closure /\ ~has_open THEN "CLOSED"
                  ELSE IF has_open THEN "OPEN"
                  ELSE "UNKNOWN"
    IN [ risk_flags |-> risks, inferred_status |-> status,
         concentrations_found |-> 0, document_text_length |-> Len(text) ]

\* pieces of extracted text
Fragments ==
    { <<"c", "a", "s", "e", " ">>,
      <<"c", "l", "o", "s", "e", "d">>,
      <<"C", "l", "o", "s", "u", "r", "e">>,
      <<"n", "o", " ", "f", "u", "r", "t", "h", "e", "r", " ", "a", "c", "t", "i", "o", "n">>,
      <<"N", "F", "A">>,
      <<"O", "n", "g", "o", "i", "n", "g">>,
      <<"a", "c", "t", "i", "v", "e", " ", "r", "e", "m", "e", "d", "i", "a", "t", "i", "o", "n">>,
      <<"m", "o", "n", "i", "t", "o", "r", "i", "n", "g", " ", "r", "e", "q", "u", "i", "r", "e", "d">>,
      <<"o", "p", "e", "n", " ">>,
      <<"P", "F", "A", "S">>,
      <<"m", "i", "s", "l", "e", "a", "d", "i", "n", "g">>,
      <<"U", "S", "T">>,
      <<" ">> }

MaxPieces == 2

\* the texts of at most n pieces
RECURSIVE TextsOf(_)
TextsOf(n) ==
    IF n = 0 THEN { <<>> }
    ELSE TextsOf(n - 1) \cup { t \o f : t \in TextsOf(n - 1), f \in Fragments }

NoAnalysis == [ inferred_status |-> "" ]

InferInit ==
    /\ infer_text \in TextsOf(MaxPieces)
    /\ analysis = NoAnalysis

\* the text that no call waits on
InferIdle ==
    /\ infer_text = <<>>
    /\ analysis = NoAnalysis

\* risk_analysis = analyze_extracted_text_for_risks(combined_text)
Analyze ==
    /\ analysis = NoAnalysis
    /\ analysis' = analyze_extracted_text_for_risks(infer_text)
    /\ UNCHANGED infer_text

---------------------------------------------------------------------------
(* The derivation of risk flags from a page, one statement at a time:      *)
(* playwright_scraper.py, the two branches of api/index.py and             *)
(* document_scraper.py                                                     *)

\* an assignment risk_flags[key] = <condition>
AssignFlag(risk_flags, key, cond) == Put(risk_flags, key, cond)

\* if <condition>: risk_flags[key] = True
SetIf(risk_flags, key, cond) == IF cond THEN Put(risk_flags, key, TRUE) ELSE risk_flags

PassDsn == "123456"

\* the pages without anchors: the derivation reads none
PassPages == {p \in Pages : p.links = <<>>}

\* scrape_brrts_site from risk_flags = {...} on: the defaults, the nine
\* characteristics, the activity type, the three keyword tests
RendererStatements == Len(CharMap) + 5

RendererStatement(risk_flags, page, k) ==
    LET site_info == FixAcres(FillFields(HeaderFields(page, [dsn |-> PassDsn]),
                                         page.values, 0))
        n == Len(CharMap)
    IN CASE k = 0 -> RenderedFlagDefaults(site_info)
         [] k \in 1..n -> CharStep(risk_flags, page.values, k - 1)
         [] k = n + 1 ->
                SetIf(risk_flags, "petroleum",
                      Upper(Get(site_info, "activity_type", "")) = "LUST")
         [] k = n + 2 -> SetIf(risk_flags, "petroleum", "petroleum" \in page.words)
         [] k = n + 3 ->
                SetIf(risk_flags, "heavy_metals",
                      page.words \cap {"arsenic", "lead", "chromium", "mercury",
                                       "cadmium"} # {})
         [] OTHER ->
                SetIf(risk_flags, "chlorinated_solvents",
                      page.words \cap {"tce", "pce", "trichloroethylene",
                                       "tetrachloroethylene", "chlorinated"} # {})

\* scrape_dnr_site, the Browserless branch: risk_flags = {}, the status
\* label, the activity type, two keyword tests
IndexRenderedStatements == 5

IndexRenderedStatement(risk_flags, page, k) ==
    LET site_info == IndexHeader(page, IndexFill(IndexDefaults(PassDsn), page.values, 0))
        status == Upper(Get(site_info, "status", ""))
    IN CASE k = 0 -> EmptyDict
         [] k = 1 -> Put(risk_flags, "status_label", IF status # "" THEN status ELSE "UNKNOWN")
         [] k = 2 ->
                SetIf(risk_flags, "petroleum",
                      Upper(Get(site_info, "activity_type", "")) = "LUST")
         [] k = 3 -> SetIf(risk_flags, "pfas", "pfas" \in page.words)
         [] OTHER ->
                SetIf(risk_flags, "heavy_metals",
                      page.words \cap {"arsenic", "lead", "mercury"} # {})

\* scrape_dnr_site, the fallback: risk_flags = {}, six keyword tests
IndexPlainStatements == 7

IndexPlainStatement(risk_flags, page, k) ==
    LET words == page.words
    IN CASE k = 0 -> EmptyDict
         [] k = 1 -> SetIf(risk_flags, "lust", words \cap {"lust", "leaking underground"} # {})
         [] k = 2 ->
                SetIf(risk_flags, "petroleum",
                      words \cap {"petroleum", "gasoline", "diesel"} # {})
         [] k = 3 -> SetIf(risk_flags, "pfas", words \cap {"pfas", "pfoa", "pfos"} # {})
         [] k = 4 ->
                SetIf(risk_flags, "heavy_metals",
                      words \cap {"arsenic", "lead", "mercury"} # {})
         [] k = 5 ->
                SetIf(risk_flags, "groundwater",
                      "groundwater" \in words /\ words \cap {"contamina", "impact"} # {})
         [] OTHER ->
                SetIf(risk_flags, "offsite_impact", words \cap {"off-site", "offsite"} # {})

\* extract_with_requests: risk_flags = {"status_label": "UNKNOWN"}, one test
PlainStatements == 2

PlainStatement(risk_flags, page, k) ==
    IF k = 0 THEN [status_label |-> "UNKNOWN"]
    ELSE SetIf(risk_flags, "petroleum",
               "lust" \in page.words \/ "petroleum" \in page.words)

PassImpls == {"renderer", "index_rendered", "index_plain", "plain"}

PassInit ==
    /\ pass_impl \in PassImpls
    /\ pass_page \in PassPages
    /\ pass_k = 0
    /\ pass_flags = EmptyDict

\* no derivation under way
PassIdle ==
    /\ pass_impl = "none"
    /\ pass_page = CHOOSE p \in PassPages : TRUE
    /\ pass_k = 0
    /\ pass_flags = EmptyDict

RendererStep ==
    /\ pass_impl = "renderer"
    /\ pass_k < RendererStatements
    /\ pass_flags' = RendererStatement(pass_flags, pass_page, pass_k)
    /\ pass_k' = pass_k + 1
    /\ UNCHANGED <<pass_impl, pass_page>>

IndexRenderedStep ==
    /\ pass_impl = "index_rendered"
    /\ pass_k < IndexRenderedStatements
    /\ pass_flags' = IndexRenderedStatement(pass_flags, pass_page, pass_k)
    /\ pass_k' = pass_k + 1
    /\ UNCHANGED <<pass_impl, pass_page>>

IndexPlainStep ==
    /\ pass_impl = "index_plain"
    /\ pass_k < IndexPlainStatements
    /\ pass_flags' = IndexPlainStatement(pass_flags, pass_page, pass_k)
    /\ pass_k' = pass_k + 1
    /\ UNCHANGED <<pass_impl, pass_page>>

PlainStep ==
    /\ pass_impl = "plain"
    /\ pass_k < PlainStatements
    /\ pass_flags' = PlainStatement(pass_flags, pass_page, pass_k)
    /\ pass_k' = pass_k + 1
    /\ UNCHANGED <<pass_impl, pass_page>>

---------------------------------------------------------------------------
(* pdf_extractor.py: clean_extracted_text applied to a text, and again to
   what it returned *)

\* the characters of the texts: a letter, the two characters [ \t] matches,
\* the newline and '\x00'
TextChars == {"a", " ", "\t", "\n", NUL}

MaxTextLen == 6

\* the texts of at most max characters
CleanInputs(max) == UNION {[1..n -> TextChars] : n \in 0..max}

CleanInit ==
    /\ clean_text \in CleanInputs(MaxTextLen)
    /\ cleaned = <<>>

\* no text under way
CleanIdle ==
    /\ clean_text = <<>>
    /\ cleaned = <<>>

\* clean_extracted_text(text)
CleanText ==
    /\ cleaned = <<>>
    /\ cleaned' = <<clean_extracted_text(clean_text)>>
    /\ UNCHANGED clean_text

\* clean_extracted_text(clean_extracted_text(text))
CleanAgain ==
    /\ Len(cleaned) = 1
    /\ cleaned' = Append(cleaned, clean_extracted_text(cleaned[1]))
    /\ UNCHANGED clean_text

---------------------------------------------------------------------------
(* api/index.py: the fallback of scrape_dnr_site reading the fields of a page,
   element by element *)

\* soup.find('title'): none, one with ' - ' in its text, one without; first
\* is title_text.split(' - ')[0].strip()
Titles ==
    { <<>>,
      << [kind |-> "title", name |-> "", value |-> "Acme - DNR", first |-> "Acme", len |-> 10] >>,
      << [kind |-> "title", name |-> "", value |-> "DNR", first |-> "DNR", len |-> 3] >> }

\* soup.find('h1') or soup.find('h2'): none, one of more than three
\* characters, one of two
Headings ==
    { <<>>,
      << [kind |-> "heading", name |-> "", value |-> "Acme Site", first |-> "", len |-> 9] >>,
      << [kind |-> "heading", name |-> "", value |-> "Hi", first |-> "", len |-> 2] >> }

\* the words the code looks for that occur in a lower-cased input name or in
\* a lower-cased label
WordsIn(name) ==
    CASE name = "site_status" -> {"status"}
      [] name = "activity_type" -> {"type", "activity"}
      [] name = "location_name" -> {"location", "name"}
      [] name = "status" -> {"status"}
      [] name = "county" -> {"county"}
      [] OTHER -> {}

\* input elements: name or id, and value
InputElements ==
    { [kind |-> "input", name |-> n, value |-> v, first |-> "", len |-> 1] :
        n \in {"site_status", "activity_type", "location_name"}, v \in {"", "A", "B"} }

\* td, dd, span and div elements: the text of the label before them, and
\* their own text
CellElements ==
    { [kind |-> "cell", name |-> n, value |-> v, first |-> "", len |-> 1] :
        n \in {"status", "county"}, v \in {"", "C"} }

MaxInputs == 2

MaxCells == 2

\* the pages with at most so many inputs and cells
ScrapePages(inputs, cells) ==
    { t \o h \o i \o c :
        t \in Titles, h \in Headings,
        i \in UNION {[1..n -> InputElements] : n \in 0..inputs},
        c \in UNION {[1..n -> CellElements] : n \in 0..cells} }

\* if site_info[field] == "Not available": site_info[field] = value
PutIfUnset(site_info, field, value) ==
    IF site_info[field] = "Not available" THEN Put(site_info, field, value) ELSE site_info

\* the if/elif chain on one input element with a value
ScrapeInput(site_info, name, placeholder, value) ==
    IF "status" \in WordsIn(name) \/ "status" \in WordsIn(placeholder)
    THEN Put(site_info, "status", value)
    ELSE IF "type" \in WordsIn(name) /\ "activity" \in WordsIn(name)
    THEN Put(site_info, "activity_type", value)
    ELSE IF "location" \in WordsIn(name) \/ "name" \in WordsIn(name)
    THEN PutIfUnset(site_info, "location_name", value)
    ELSE IF "address" \in WordsIn(name) \/ "street" \in WordsIn(name)
    THEN Put(site_info, "address", value)
    ELSE IF "municipal" \in WordsIn(name) \/ "city" \in WordsIn(name)
    THEN Put(site_info, "municipality", value)
    ELSE IF "county" \in WordsIn(name)
    THEN Put(site_info, "county", value)
    ELSE IF "region" \in WordsIn(name)
    THEN Put(site_info, "region", value)
    ELSE site_info

\* the if/elif chain on one cell with its label text
ScrapeCell(site_info, prev_text, text) ==
    IF "status" \in WordsIn(prev_text) /\ site_info["status"] = "Not available"
    THEN Put(site_info, "status", text)
    ELSE IF "activity type" \in WordsIn(prev_text)
            /\ site_info["activity_type"] = "Not available"
    THEN Put(site_info, "activity_type", text)
    ELSE IF "county" \in WordsIn(prev_text) /\ site_info["county"] = "Not available"
    THEN Put(site_info, "county", text)
    ELSE IF "municipality" \in WordsIn(prev_text)
            /\ site_info["municipality"] = "Not available"
    THEN Put(site_info, "municipality", text)
    ELSE IF "region" \in WordsIn(prev_text) /\ site_info["region"] = "Not available"
    THEN Put(site_info, "region", text)
    ELSE site_info

MaxCellText == 200

\* site_info after the code has visited one element
ScrapeElement(site_info, el) ==
    CASE el.kind = "title" ->
            IF el.first # el.value THEN Put(site_info, "location_name", el.first)
            ELSE site_info
      [] el.kind = "heading" ->
            IF el.value # "" /\ el.len > 3 THEN Put(site_info, "location_name", el.value)
            ELSE site_info
      [] el.kind = "input" ->
            IF el.value = "" THEN site_info
            ELSE ScrapeInput(site_info, el.name, "", el.value)
      [] OTHER ->
            IF el.value = "" \/ el.len > MaxCellText THEN site_info
            ELSE ScrapeCell(site_info, el.name, el.value)

ScrapeInit ==
    /\ scr_page \in ScrapePages(MaxInputs, MaxCells)
    /\ scr_k = 0
    /\ scr_info = IndexDefaults(PassDsn)

\* no page under way
ScrapeIdle ==
    /\ scr_page = <<>>
    /\ scr_k = 0
    /\ scr_info = IndexDefaults(PassDsn)

\* the code visits the next element
ScrapeStep ==
    /\ scr_k < Len(scr_page)
    /\ scr_k' = scr_k + 1
    /\ scr_info' = ScrapeElement(scr_info, scr_page[scr_k + 1])
    /\ UNCHANGED scr_page

---------------------------------------------------------------------------
(* Specifications: one per subsystem, the others at rest *)

ExtractIdle ==
    /\ ExtractInit
    /\ PYPDF_AVAILABLE
    /\ PDFMINER_AVAILABLE

\* requests to the analyze entry points
Init == DiscInit /\ ExtractIdle /\ SessionInit /\ InferIdle /\ PassIdle /\ CleanIdle /\ ScrapeIdle

Next ==
    \/ pc = "idle" /\ UNCHANGED beside_disc
          /\ \E id \in Identifiers : ApiAnalyze(id)
    \/ pc = "render" /\ UNCHANGED beside_disc
          /\ \E exists \in BOOLEAN : \E p \in ProcOutcomes(dsn) : RunRenderer(exists, p)
    \/ pc = "plain" /\ UNCHANGED beside_disc
          /\ \E n \in NetOutcomes : PlainFetch(n)
    \/ Respond /\ UNCHANGED beside_disc
    \/ pc = "idle" /\ UNCHANGED beside_disc
          /\ \E id \in Identifiers : IndexAnalyze(id)
    \/ pc = "render" /\ UNCHANGED beside_disc
          /\ \E b \in RemoteOutcomes : Browserless(b)
    \/ pc = "plain" /\ UNCHANGED beside_disc
          /\ \E n \in NetOutcomes : \E api \in ApiOutcomes : IndexPlain(n, api)
    \/ pc = "idle" /\ UNCHANGED beside_disc
          /\ \E id \in Identifiers : \E n \in LegacyOutcomes : FetchSiteData(id, n)

Spec == Init /\ [][Next]_vars

\* batch extractions
InitExtract == ExtractInit /\ DiscInit /\ SessionInit /\ InferIdle /\ PassIdle /\ CleanIdle /\ ScrapeIdle

NextExtract ==
    \/ xpc = "idle" /\ UNCHANGED beside_extract
          /\ \E docs \in DocLists : \E given \in BOOLEAN : \E limit \in Limits :
                /\ given \/ limit = 0
                /\ ExtractAll(docs, given, limit)
    \/ xpc = "loop" /\ UNCHANGED beside_extract
          /\ \E e \in Fetches \cup {NoFetch} : ExtractOne(e)
    \/ ExtractReturn /\ UNCHANGED beside_extract
    \/ xpc = "idle" /\ UNCHANGED beside_extract
          /\ \E docs \in DocLists \cup {LongList} : MainExtract(docs)
    \/ MainExtractReturn /\ UNCHANGED beside_extract
    \/ xpc = "idle" /\ UNCHANGED beside_extract
          /\ \E docs \in DocLists : IndexExtract(docs)
    \/ xpc = "loop" /\ UNCHANGED beside_extract
          /\ \E e \in Fetches \cup {NoFetch} : IndexExtractOne(e)
    \/ IndexExtractReturn /\ UNCHANGED beside_extract

SpecExtract == InitExtract /\ [][NextExtract]_vars

\* calls on download sessions
InitSession == SessionInit /\ DiscInit /\ ExtractIdle /\ InferIdle /\ PassIdle /\ CleanIdle /\ ScrapeIdle

NextSession ==
    \/ UNCHANGED beside_session
          /\ \E sid \in Sids : GetOrCreateSession(sid)
    \/ UNCHANGED beside_session
          /\ \E sid \in DOMAIN sessions : \E doc \in SessionDocs : \E e \in Gets \cup {NoGet} :
                DownloadDocument(sid, doc, e)
    \/ UNCHANGED beside_session
          /\ \E sid \in DOMAIN sessions : \E removed \in BOOLEAN : Cleanup(sid, removed)
    \/ UNCHANGED beside_session
          /\ \E sid \in Sids : \E removed \in BOOLEAN : CleanupSession(sid, removed)

SpecSession == InitSession /\ [][NextSession]_vars

\* the same calls, made with session ids that name nested directories
NextNested ==
    \/ UNCHANGED beside_session
          /\ \E sid \in NestedSids : GetOrCreateSession(sid)
    \/ UNCHANGED beside_session
          /\ \E sid \in DOMAIN sessions : \E doc \in SessionDocs :
                \E e \in Gets \cup {NoGet} : DownloadDocument(sid, doc, e)
    \/ UNCHANGED beside_session
          /\ \E sid \in DOMAIN sessions : \E removed \in BOOLEAN : Cleanup(sid, removed)
    \/ UNCHANGED beside_session
          /\ \E sid \in NestedSids : \E removed \in BOOLEAN : CleanupSession(sid, removed)

SpecNested == InitSession /\ [][NextNested]_vars

\* the same calls, made in one session with the documents of two discovery
\* calls
NextRepeated ==
    \/ UNCHANGED beside_session
          /\ \E sid \in {"s1"} : GetOrCreateSession(sid)
    \/ UNCHANGED beside_session
          /\ \E sid \in DOMAIN sessions : \E doc \in RepeatedIdDocs :
                \E e \in Gets \cup {NoGet} : DownloadDocument(sid, doc, e)
    \/ UNCHANGED beside_session
          /\ \E sid \in DOMAIN sessions : \E removed \in BOOLEAN : Cleanup(sid, removed)
    \/ UNCHANGED beside_session
          /\ \E sid \in {"s1"} : \E removed \in BOOLEAN : CleanupSession(sid, removed)

SpecRepeated == InitSession /\ [][NextRepeated]_vars

InitInfer == InferInit /\ DiscInit /\ ExtractIdle /\ SessionInit /\ PassIdle /\ CleanIdle /\ ScrapeIdle

NextInfer ==
    \/ Analyze /\ UNCHANGED beside_infer

SpecInfer == InitInfer /\ [][NextInfer]_vars

InitPass == PassInit /\ DiscInit /\ ExtractIdle /\ SessionInit /\ InferIdle /\ CleanIdle /\ ScrapeIdle

NextPass ==
    \/ RendererStep /\ UNCHANGED beside_pass
    \/ IndexRenderedStep /\ UNCHANGED beside_pass
    \/ IndexPlainStep /\ UNCHANGED beside_pass
    \/ PlainStep /\ UNCHANGED beside_pass

SpecPass == InitPass /\ [][NextPass]_vars

InitClean ==
    CleanInit /\ DiscInit /\ ExtractIdle /\ SessionInit /\ InferIdle /\ PassIdle /\ ScrapeIdle

InitScrape ==
    ScrapeInit /\ DiscInit /\ ExtractIdle /\ SessionInit /\ InferIdle /\ PassIdle /\ CleanIdle

NextScrape ==
    \/ ScrapeStep /\ UNCHANGED beside_scr

SpecScrape == InitScrape /\ [][NextScrape]_vars

NextClean ==
    \/ CleanText /\ UNCHANGED beside_clean
    \/ CleanAgain /\ UNCHANGED beside_clean

SpecClean == InitClean /\ [][NextClean]_vars

---------------------------------------------------------------------------
(* Discovery: what is claimed of it *)

\* extract_site_and_documents was called and has ended
Discovered == impl = "main" /\ pc \in {"respond", "done"} /\ Strip(brrts) # <<>>

Invoked(strategy) == \E i \in 1..Len(calls) : calls[i] = strategy

\* the renderer exited zero with a well-formed object that carries no error
RenderSucceeded ==
    /\ Invoked("render")
    /\ proc.spawned /\ proc.secs <= RenderTimeoutS /\ proc.returncode = 0
    /\ proc.stdout.fmt = "object" /\ ~Truthy(proc.stdout.data.error)

\* every strategy that ran has failed
StrategiesFailed == Discovered /\ ~RenderSucceeded /\ net.kind # "ok"

\* C1: discovery returns a full result and never raises, whatever the renderer
\* and the network do; when every strategy failed the result has
\* status_label UNKNOWN and no documents.
C1_NeverRaises ==
    /\ ~raised
    /\ Discovered =>
          {"site_info", "risk_flags", "documents", "summary"} \subseteq DOMAIN result
    /\ StrategiesFailed /\ ~raised =>
          /\ result["risk_flags"]["status_label"] = "UNKNOWN"
          /\ result["documents"] = <<>>

\* a renderer that printed a JSON array, then an unreachable host
C1_Witness ==
    /\ Discovered /\ pc = "done"
    /\ calls = <<"render", "plain">>
    /\ proc.spawned /\ proc.stdout.fmt = "array" /\ proc.returncode = 0
    /\ net.kind = "ConnectionError"
    /\ result["documents"] = <<>>

\* C2: the strategies run in fixed order, plain fetch runs iff rendered fetch
\* did not succeed, a successful renderer's data is what is returned, and a
\* non-zero exit, a timeout over 120 s, malformed output or an embedded error
\* raise nothing and lead to plain fetch.
C2_FallbackOrder ==
    Discovered =>
      /\ ~raised
      /\ calls \in {<<"render">>, <<"render", "plain">>, <<"plain">>}
      /\ Invoked("plain") <=> ~RenderSucceeded
      /\ RenderSucceeded =>
            /\ result["site_info"] = proc.stdout.data.site_info
            /\ result["risk_flags"] = proc.stdout.data.risk_flags
            /\ result["documents"] = proc.stdout.data.documents
      /\ Invoked("render") /\ ( \/ proc.returncode # 0
                                \/ proc.secs > 120
                                \/ proc.stdout.fmt \in {"garbage", "array"}
                                \/ Truthy(proc.stdout.data.error) )
            => calls = <<"render", "plain">>

\* the renderer exited with code 1 after printing a clean result object
C2_Witness ==
    /\ Discovered /\ pc = "done"
    /\ proc.spawned /\ proc.returncode = 1 /\ proc.stdout.fmt = "object"
    /\ ~Truthy(proc.stdout.data.error)
    /\ calls = <<"render", "plain">>

KnownFlagKeys ==
    { "pfas", "petroleum", "heavy_metals", "chlorinated_solvents", "offsite_impact",
      "groundwater_impact", "soil_contamination", "status_label" }

\* C3: every RiskFlags mapping discovery returns has every known flag key,
\* whichever path produced it.
C3_AllFlagKeys ==
    pc = "done" /\ impl \in {"main", "index"} /\ Has(result, "risk_flags") =>
        KnownFlagKeys \subseteq DOMAIN result["risk_flags"]

\* the digits of the identifier, cut to the last DsnLen of them
ExpectedDsn(id) ==
    LET ds == SelectSeq(id, LAMBDA c : c \in Digits)
        k == IF Len(ds) < DsnLen THEN Len(ds) ELSE DsnLen
    IN Join([i \in 1..k |-> ds[Len(ds) - k + i]])

Accepted == pc = "done" /\ impl \in {"main", "index"} /\ response.code # 400

\* C4: the dsn of the SiteRecord an analyze entry point returns is the digits
\* of the identifier, cut to its last 6 digits, on success and on error.
C4_DsnField ==
    Accepted =>
        /\ Has(response.body, "site_info")
        /\ Get(response.body["site_info"], "dsn", None) = ExpectedDsn(brrts)

\* an identifier of more than six digits, answered on the error path
C4_Witness ==
    /\ Accepted /\ impl = "main" /\ response.code = 500
    /\ Len(DigitsOnly(brrts)) > DsnLen
    /\ response.body["site_info"]["dsn"] = "221121"

Unreachable == Invoked("plain") /\ net.kind \in {"ConnectionError", "Timeout"}

\* the explicit record of an unreachable host
Degraded(r) ==
    /\ \/ Get(r["risk_flags"], "status_label", "") = "UNAVAILABLE"
       \/ Get(r["site_info"], "status", "") = "UNAVAILABLE"
    /\ Get(r["site_info"], "location_name", "") = "Could not reach DNR site"
    /\ r["summary"] = "Unable to connect to Wisconsin DNR BRRTS system."

\* C5: an unreachable host gives the explicit degraded record (UNAVAILABLE, the
\* sentinel location name, the unable-to-connect summary), and a host that
\* answered, even with an HTTP error, gives a different outcome.
C5_UnreachableRecord ==
    pc = "done" /\ Invoked("plain") /\ result # NoResult =>
        /\ Unreachable => Degraded(result)
        /\ ~Unreachable => ~Degraded(result)

\* the raw hrefs of a page's document anchors, each at its first occurrence
RECURSIVE FirstOccurrences(_, _)
FirstOccurrences(links, before) ==
    IF links = <<>> THEN <<>>
    ELSE IF HrefStr(Head(links)) \in before
    THEN FirstOccurrences(Tail(links), before)
    ELSE <<Head(links)>>
             \o FirstOccurrences(Tail(links), before \cup {HrefStr(Head(links))})

\* a discovery call has returned what it made of a page it fetched
Harvested ==
    /\ pc = "done"
    /\ \/ impl = "main" /\ ~RenderSucceeded /\ net.kind = "ok"
       \/ impl = "index" /\ remote.kind = "ok"
       \/ impl = "index" /\ net.kind = "ok"

HarvestedPage == IF impl = "index" /\ remote.kind = "ok" THEN remote.page ELSE net.page

\* the documents it made of the page's anchors: all of them, but for the
\* fallback of api/index.py, which appends those of the document endpoint
\* (the only ones it gives a comment)
LinkDocuments ==
    IF impl = "index" /\ remote.kind # "ok"
    THEN SelectSeq(result["documents"], LAMBDA d : ~Has(d, "comment"))
    ELSE result["documents"]

\* there is one document per distinct raw href, in the order of first
\* occurrence, with the href made absolute as its download_url
OnePerRawLink(links, documents) ==
    LET firsts == FirstOccurrences(links, {})
    IN /\ Len(documents) = Len(firsts)
       /\ \A i \in 1..Len(firsts) :
              documents[i]["download_url"] = HrefStr(Absolute(firsts[i]))

\* C16: the documents of one discovery call are its page's links deduplicated
\* by the raw href as an exact string: a raw href that occurs several times
\* gives one document, and hrefs that differ in any character, be it only a
\* trailing fragment or the host in front, give one document each.
C16_DedupByRawLink ==
    Harvested => OnePerRawLink(HarvestedPage.links, LinkDocuments)

\* the same for extract_with_requests alone
PlainDedupByRawLink ==
    Harvested /\ impl = "main" => OnePerRawLink(HarvestedPage.links, LinkDocuments)

\* the flags claimed for a site and the keywords of its page text
FlagsFollow(risk_flags, site_info, words) ==
    /\ Upper(Get(site_info, "activity_type", "")) = "LUST" => Flag(risk_flags, "petroleum")
    /\ "pfas" \in words => Flag(risk_flags, "pfas")
    /\ "lead" \in words => Flag(risk_flags, "heavy_metals")
    /\ "offsite" \in words => Flag(risk_flags, "offsite_impact")

\* the pages the renderer may have read to print what it printed
RenderedPages ==
    { b.page : b \in { o \in BrowserOutcomes :
                          ~o.raised /\ proc.stdout.data = scrape_brrts_site(dsn, o) } }

\* the pages the returned result was made of
ResultPages ==
    IF impl = "main" /\ RenderSucceeded THEN RenderedPages
    ELSE IF Harvested THEN {HarvestedPage}
    ELSE {}

\* C24: whichever strategy produced the result, its risk flags have petroleum
\* true when the activity type of the site is LUST and pfas, heavy_metals and
\* offsite_impact true when the page text contains the keyword of the flag.
C24_FlagsFollow ==
    pc = "done" /\ impl \in {"main", "index"} =>
        \A page \in ResultPages :
            FlagsFollow(result["risk_flags"], result["site_info"], page.words)

\* the part of it that holds of every strategy but the plain fetch of
\* main.py: a page text with "lead" gives heavy_metals
HeavyMetalsFollow ==
    pc = "done" /\ impl \in {"main", "index"} /\ ~(impl = "main" /\ ~RenderSucceeded) =>
        \A page \in ResultPages :
            "lead" \in page.words => Flag(result["risk_flags"], "heavy_metals")

\* the links of the page a document may have come from
LinksOf(doc) ==
    { i \in 1..Len(HarvestedPage.links) :
        doc["download_url"] = HrefStr(Absolute(HarvestedPage.links[i])) }

\* the sequence number claimed for a document of a link: the digits of the
\* docSeqNo parameter, or the counter the document got as its id
SeqNoClaimed(doc, link) == IF link.seq # "" THEN link.seq ELSE ToString(doc["id"])

\* C26: every document of a discovery call carries a doc_seq_no, which is
\* the number of the docSeqNo parameter of its url when it has one and a
\* counter otherwise, and no link is dropped for having no such parameter.
C26_DocSeqNo ==
    Harvested =>
        /\ \A i \in 1..Len(HarvestedPage.links) :
              \E n \in 1..Len(LinkDocuments) : i \in LinksOf(LinkDocuments[n])
        /\ \A n \in 1..Len(LinkDocuments) :
              \E i \in LinksOf(LinkDocuments[n]) :
                  Get(LinkDocuments[n], "doc_seq_no", None)
                      = SeqNoClaimed(LinkDocuments[n], HarvestedPage.links[i])

\* what extract_with_requests does: no link is dropped, and the number or the
\* counter goes into the name of the document
PlainNamesSeqNo ==
    Harvested /\ impl = "main" =>
        /\ \A i \in 1..Len(HarvestedPage.links) :
              \E n \in 1..Len(LinkDocuments) : i \in LinksOf(LinkDocuments[n])
        /\ \A n \in 1..Len(LinkDocuments) :
              /\ ~Has(LinkDocuments[n], "doc_seq_no")
              /\ \E i \in LinksOf(LinkDocuments[n]) :
                    LinkDocuments[n]["name"] =
                        "Site File Documentation (ID: "
                            \o SeqNoClaimed(LinkDocuments[n], HarvestedPage.links[i]) \o ")"

\* what the fallback of scrape_dnr_site does: the documents of links have the
\* number of their parameter, and a link without the parameter has none
IndexDropsUnnumbered ==
    Harvested /\ impl = "index" /\ remote.kind # "ok" =>
        /\ \A n \in 1..Len(LinkDocuments) :
              \E i \in LinksOf(LinkDocuments[n]) :
                  /\ HarvestedPage.links[i].seq # ""
                  /\ LinkDocuments[n]["doc_seq_no"] = HarvestedPage.links[i].seq
        /\ Len(LinkDocuments) =
              Len(SelectSeq(HarvestedPage.links, LAMBDA link : link.seq # ""))

Returned == pc = "done" /\ impl \in {"main", "index"} /\ Has(result, "documents")

IdsInOrder(documents) == \A n \in 1..Len(documents) : documents[n]["id"] = n - 1

DistinctUrls(documents) ==
    \A n, k \in 1..Len(documents) :
        documents[n]["download_url"] = documents[k]["download_url"] => n = k

\* C27: in the documents one discovery call returns the download_urls are
\* pairwise distinct and the ids are 0..n-1 in list order, whatever links the
\* page has and whatever the document endpoint adds.
C27_DistinctAndNumbered ==
    Returned =>
        /\ DistinctUrls(result["documents"])
        /\ IdsInOrder(result["documents"])

\* the half of it that holds: the ids are the positions
NumberedInOrder == Returned => IdsInOrder(result["documents"])

\* extract_with_requests returned two documents with one download_url
PlainSameUrlTwice ==
    /\ Returned /\ impl = "main" /\ ~RenderSucceeded
    /\ ~DistinctUrls(result["documents"])

---------------------------------------------------------------------------
(* Batch extraction: what is claimed of it *)

StatusOf(r) == Get(r, "extraction_status", None)

TextOf(r) == Get(r, "extracted_text", "")

\* C6: in extract_all_documents every result is what extract_document_text
\* gives for that document alone, a document with no download_url gets no_url,
\* and no download or extraction failure aborts the batch: nothing is raised
\* and every document of the slice has its result when the call returns.
C6_Independent ==
    ximpl = "batch" =>
        /\ ~xraised
        /\ Len(env) = Len(results)
        /\ xpc = "done" => Len(results) = Len(Slice(doc_list, max_documents))
        /\ \A j \in 1..Len(results) :
              /\ results[j] = extract_document_text(doc_list[j], env[j]).value
              /\ ~Truthy(Get(doc_list[j], "download_url", None)) =>
                    StatusOf(results[j]) = "no_url"

\* a download that failed on a connection error, and a success after it
C6_Witness ==
    /\ ximpl = "batch" /\ xpc = "done"
    /\ Len(results) = 2
    /\ env[1].conn = "ConnectionError"
    /\ StatusOf(results[1]) = "download_failed"
    /\ StatusOf(results[2]) = "success"

ExtractionStatuses == {"success", "download_failed", "extraction_failed", "no_url"}

WellFormedResult(r) ==
    /\ StatusOf(r) \in ExtractionStatuses
    /\ (TextOf(r) # "") <=> (StatusOf(r) = "success")

\* C7: every per-document extraction result has one of the four statuses and
\* a non-empty extracted_text exactly when the status is success.
C7_StatusAndText == \A j \in 1..Len(results) : WellFormedResult(results[j])

\* the same of pdf_extractor.py alone
BatchStatusAndText ==
    ximpl = "batch" => \A j \in 1..Len(results) : WellFormedResult(results[j])

\* the keys extraction writes
ExtractionKeys == {"extracted_text", "extraction_status", "text_length"}

\* r is a result for the document doc: doc with the extraction keys written
ResultFor(r, doc) ==
    /\ DOMAIN doc \subseteq DOMAIN r
    /\ DOMAIN r \subseteq DOMAIN doc \cup ExtractionKeys
    /\ \A key \in DOMAIN doc \ ExtractionKeys : r[key] = doc[key]

\* C8: extract_all_documents(documents, limit), limit a count, takes the
\* documents in input order one at a time, returns one result for each of the
\* first min(len(documents), limit) of them in that order, limit being 50 when
\* not passed, and makes no GET for a document beyond the limit.
C8_OrderAndLimit ==
    ximpl = "batch" /\ max_documents >= 0 =>
        LET n == IF Len(doc_list) < max_documents THEN Len(doc_list) ELSE max_documents
        IN /\ ~limit_given => max_documents = 50
           /\ Len(results) <= n
           /\ xpc = "done" => Len(results) = n
           /\ \A j \in 1..Len(results) : ResultFor(results[j], doc_list[j])
           /\ \A f \in 1..Len(fetched) :
                 /\ fetched[f][1] <= Len(results)
                 /\ fetched[f][2] = Get(doc_list[fetched[f][1]], "download_url", None)
                 /\ f > 1 => fetched[f - 1][1] < fetched[f][1]

\* two documents with urls and a limit of one
C8_Witness ==
    /\ ximpl = "batch" /\ xpc = "done"
    /\ limit_given /\ max_documents = 1
    /\ Len(doc_list) = 2
    /\ Truthy(Get(doc_list[1], "download_url", None))
    /\ Truthy(Get(doc_list[2], "download_url", None))
    /\ Len(results) = 1
    /\ fetched = << <<1, doc_list[1]["download_url"]>> >>

\* C18: a step of an extraction leaves every field of every document other
\* than extracted_text, extraction_status and text_length as it is and adds no
\* other key; every result is a document of the input with only those three
\* written; extract_all_documents leaves the list and the documents it was
\* passed untouched.
C18_Frame ==
    [][ xpc # "idle" =>
            /\ Len(doc_list') = Len(doc_list)
            /\ \A j \in 1..Len(doc_list) : ResultFor(doc_list'[j], doc_list[j])
            /\ ximpl = "batch" => doc_list' = doc_list
            /\ ximpl = "batch" =>
                   \A j \in 1..Len(results') : ResultFor(results'[j], doc_list[j])
            /\ ximpl = "index" =>
                   \A j \in 1..Len(results') :
                       \E pos \in 1..Len(doc_list) : ResultFor(results'[j], doc_list[pos])
      ]_vars

\* C18 reached: a document that came with a name, a date and a url was
\* extracted; the result has its three fields and the text, and the caller's
\* document has none of the extraction keys
C18_Witness ==
    /\ ximpl = "batch" /\ xpc = "done" /\ ~xraised
    /\ Len(results) >= 1
    /\ DOMAIN doc_list[1] = {"name", "date", "download_url"}
    /\ StatusOf(results[1]) = "success"
    /\ DOMAIN results[1] = DOMAIN doc_list[1] \cup ExtractionKeys
    /\ \A key \in DOMAIN doc_list[1] : results[1][key] = doc_list[1][key]

\* the bytes extract_document_text hands to extract_text_from_pdf for the
\* j-th document taken, NoneBytes when it hands over none
Handed(j) ==
    LET url == Get(doc_list[j], "download_url", None)
    IN IF ~Truthy(url) THEN NoneBytes
       ELSE download_pdf_content(url, env[j]).value

\* the text claimed for bytes: the cleaned text of the primary backend when
\* that is not blank, otherwise the cleaned text of the secondary
TextClaimed(content) ==
    IF Strip(extract_text_pypdf(content)) # <<>>
    THEN clean_extracted_text(extract_text_pypdf(content))
    ELSE clean_extracted_text(extract_text_pdfminer(content))

\* C20: extract_text_from_pdf calls the primary backend (pypdf) first and the
\* secondary (pdfminer), where it is installed, if and only if the text of the
\* primary is empty or white space only, which it is when the primary raised;
\* it returns the cleaned text of the primary when that is not blank and
\* otherwise that of the secondary; a backend that raises gives empty text and
\* nothing is raised to the caller.
C20_Fallback ==
    ximpl = "batch" =>
        /\ ~xraised
        /\ \A j \in 1..Len(results) :
              ~Falsy(Handed(j)) =>
                  LET content == Handed(j)
                      run == ExtractRun(content)
                      primary == extract_text_pypdf(content)
                  IN /\ content.pypdf.exc # "" => primary = <<>>
                     /\ content.pdfminer.exc # "" => extract_text_pdfminer(content) = <<>>
                     /\ PYPDF_AVAILABLE => run.tried # <<>> /\ run.tried[1] = "pypdf"
                     /\ \A n \in 1..Len(run.tried) : run.tried[n] = "pypdf" => n = 1
                     /\ PDFMINER_AVAILABLE =>
                            (("pdfminer" \in Range(run.tried)) <=> (Strip(primary) = <<>>))
                     /\ ~PDFMINER_AVAILABLE => "pdfminer" \notin Range(run.tried)
                     /\ TextOf(results[j]) = Join(TextClaimed(content))
                     /\ StatusOf(results[j]) =
                            IF TextClaimed(content) # <<>> THEN "success" ELSE "extraction_failed"

\* C20 reached: of two documents extracted with both backends installed, the
\* first came out of a primary that raised and the second out of a primary
\* that gave white space only; both have the text of the secondary
C20_Witness ==
    /\ ximpl = "batch" /\ xpc = "done" /\ ~xraised
    /\ PYPDF_AVAILABLE /\ PDFMINER_AVAILABLE
    /\ Len(results) = 2
    /\ Handed(1).pypdf.exc = "PdfReadError"
    /\ ExtractRun(Handed(1)).tried = <<"pypdf", "pdfminer">>
    /\ TextOf(results[1]) = "x"
    /\ Handed(2).pypdf.exc = "" /\ extract_text_pypdf(Handed(2)) = <<" ", "\n">>
    /\ ExtractRun(Handed(2)).tried = <<"pypdf", "pdfminer">>
    /\ TextOf(results[2]) = "y"

\* the url of the j-th document taken, None when it has none
UrlOf(j) == Get(doc_list[j], "download_url", None)

\* the response to the GET of the j-th document is a candidate document as
\* claimed: no network or HTTP error, and a content type that mentions pdf,
\* a url that ends with .pdf in any case, or more than 1000 bytes
ClaimedCandidate(j) ==
    /\ env[j].conn = "ok"
    /\ env[j].status < 400
    /\ \/ env[j].ctype \in {"application/pdf", "application/x-pdf"}
       \/ UrlOf(j) = UrlPdf
       \/ env[j].body.size > 1000

\* the j-th document reached the extraction backends
Extracted(j) == StatusOf(results[j]) \in {"success", "extraction_failed"}

\* C23: download_pdf_content takes a response for a candidate document iff
\* its content type mentions pdf or the url ends with .pdf or it has more
\* than 1000 bytes; in every other case, and on any network or HTTP error, the
\* status of the document is download_failed and no extraction backend is
\* invoked.
C23_Candidate ==
    ximpl = "batch" =>
        \A j \in 1..Len(results) :
            Truthy(UrlOf(j)) =>
                /\ ClaimedCandidate(j) <=> ~Handed(j).none
                /\ ClaimedCandidate(j) => Handed(j) = env[j].body
                /\ ~ClaimedCandidate(j) =>
                      /\ StatusOf(results[j]) = "download_failed"
                      /\ ~Extracted(j)

\* which candidates reach the backends: those with a payload that is not
\* empty; the others are download_failed too
ExtractedIffPayload ==
    ximpl = "batch" =>
        \A j \in 1..Len(results) :
            Truthy(UrlOf(j)) =>
                /\ (ClaimedCandidate(j) /\ env[j].body.size > 0) <=> Extracted(j)
                /\ ~Extracted(j) => StatusOf(results[j]) = "download_failed"

\* C23 reached: the same small HTML answer made a candidate by the .PDF at
\* the end of one url and none at the other, and an answer with the pdf
\* content type and no bytes
C23_Witness ==
    /\ ximpl = "batch" /\ xpc = "done" /\ ~xraised
    /\ Len(results) = 2
    /\ \E j, k \in 1..2 :
          /\ UrlOf(j) = UrlPdf /\ env[j].ctype = "text/html" /\ env[j].status = 200
          /\ env[j].body.size = 1000
          /\ Extracted(j)
          /\ UrlOf(k) = UrlSeq7
          /\ StatusOf(results[k]) = "download_failed"
          /\ \/ env[k] = env[j]
             \/ env[k].ctype = "application/pdf" /\ env[k].body.size = 0

\* header and text of every successful result among the first n, in order
RECURSIVE SuccessParts(_)
SuccessParts(n) ==
    IF n = 0 THEN <<>>
    ELSE SuccessParts(n - 1)
            \o (IF StatusOf(results[n]) = "success"
                THEN <<DocHeader(n - 1, doc_list[n]) \o TextOf(results[n])>>
                ELSE <<>>)

BatchReturned == ximpl = "batch" /\ xpc = "done" /\ ~xraised

\* C22: the combined text extract_all_documents returns is the texts of the
\* successful documents in input order, each after its one-line header with
\* position and name, joined by blank lines, with nothing before the first
\* header; it is empty iff no document was extracted successfully.
C22_Combined ==
    BatchReturned =>
        /\ combined_text = JoinStr(SuccessParts(Len(results)), "\n\n")
        /\ (combined_text = "") <=> (SuccessParts(Len(results)) = <<>>)

\* what the code returns: the same after two newlines and a rule of 80 "="
\* that runs into the first header
CombinedOfCode ==
    BatchReturned =>
        /\ combined_text =
              IF SuccessParts(Len(results)) = <<>> THEN ""
              ELSE "\n\n" \o Repeat("=", 80) \o JoinStr(SuccessParts(Len(results)), "\n\n")
        /\ (combined_text = "") <=> (SuccessParts(Len(results)) = <<>>)

\* a batch with a success returned
CombinedNonEmpty == BatchReturned /\ SuccessParts(Len(results)) # <<>>

\* an extract endpoint has answered with a summary
Summarised == xresponse.code = 200 /\ Has(xresponse.body, "extraction_summary")

\* how many of the results have a status other than success
Unsuccessful(extracted) == Len(extracted) - Successful(extracted)

\* C29: in the answer of an extract endpoint extraction_summary.successful is
\* the number of returned results with status success and
\* extraction_summary.failed is the number of returned results with any other
\* status, however many documents were submitted.
C29_SummaryCounts ==
    Summarised =>
        /\ xresponse.body["extraction_summary"].successful
              = Successful(xresponse.body["documents"])
        /\ xresponse.body["extraction_summary"].failed
              = Unsuccessful(xresponse.body["documents"])

\* what holds: successful counts the returned successes, failed is the rest
\* of the submitted documents, returned or not
SummaryOfCode ==
    Summarised =>
        /\ xresponse.body["extraction_summary"].successful
              = Successful(xresponse.body["documents"])
        /\ xresponse.body["extraction_summary"].failed
              = Len(doc_list) - Successful(xresponse.body["documents"])
        /\ xresponse.body["extraction_summary"].total = Len(doc_list)

\* main.py answered a request above its limit
OverLimitAnswered ==
    /\ Summarised /\ ximpl = "main"
    /\ Len(doc_list) = MainMaxDocuments + 1
    /\ Len(xresponse.body["documents"]) = MainMaxDocuments
    /\ xresponse.body["extraction_summary"].failed = MainMaxDocuments + 1

---------------------------------------------------------------------------
(* Download sessions: claims, checked under SpecSession *)

Downloaded == last.op = "download"

\* two download_document calls in a row by one session with one identity
Again == Downloaded /\ prev.op = "download"

\* a download_document that follows a cleanup of its session id which emptied
\* a mapping holding its identity, with no other download in between
AfterCleanup == Downloaded /\ prev.op \in {"cleanup", "cleanup_session", "get"}

\* the last call cleaned up a registered session
Cleaned == last.op \in {"cleanup", "cleanup_session"} /\ last.known

\* C9, as the code has it: within one session, once download_document has
\* returned a path for an identity, every later call with that identity, until
\* a cleanup, makes no fetch and returns that same path; the mapping of a
\* session is exactly the paths returned since its last cleanup.  A call that
\* returned None has cached nothing.
C9_CacheHit ==
    /\ \A sid \in DOMAIN sessions : sessions[sid] = returned[sid]
    /\ Downloaded /\ last.known =>
            /\ ~last.fetch
            /\ last.ret = last.cached
            /\ last.ret # NoPath
    /\ Downloaded /\ last.ret # NoPath =>
            Get(sessions[last.sid], last.doc_id, NoPath) = last.ret
    /\ Again /\ prev.ret # NoPath =>
            /\ ~last.fetch
            /\ last.ret = prev.ret

\* C9 reached: a call fetched and returned a path, the next call with the same
\* identity returned it again without a fetch
C9_Witness ==
    /\ Again
    /\ prev.fetch
    /\ prev.ret # NoPath
    /\ ~last.fetch
    /\ last.ret = prev.ret

\* C9 as stated: two calls in a row with one identity, the first finding
\* nothing cached, make exactly one fetch, and the second returns the path the
\* first saved
C9_ExactlyOneFetch ==
    Again /\ ~prev.known =>
        /\ prev.fetch
        /\ ~last.fetch
        /\ last.ret # NoPath
        /\ last.ret = prev.ret

OthersKept(sid) ==
    \A o \in AllSids \ {sid} :
        /\ Has(sessions', o) = Has(sessions, o)
        /\ Has(sessions, o) => sessions'[o] = sessions[o]
        /\ (o \in dirs') = (o \in dirs)
        /\ {f \in files' : f.dir = BaseDir(o)} = {f \in files : f.dir = BaseDir(o)}

Failed(call) ==
    /\ call.op = "download"
    /\ \/ call.doc_id = ""
       \/ call.fetch /\ call.got # "ok"
       \/ ~call.fetch /\ ~call.hit

\* C12: a download_document whose document has no download_url, or whose
\* download failed (the GET raised, answered an error status or broke off, or
\* the name could not be cleaned), returns None, raises nothing and leaves
\* every mapping as it was, so that the identity is still not in the mapping;
\* and a call returns None only in these cases.
C12_FailureAbsent ==
    [][ /\ Failed(last') =>
                /\ last'.ret = NoPath
                /\ last'.exc = ""
                /\ sessions' = sessions
                /\ last'.doc_id # "" => ~Has(sessions'[last'.sid], last'.doc_id)
        /\ last'.op = "download" /\ last'.ret = NoPath => Failed(last')
      ]_vars

\* C12 reached: the GET of a document with a url raised, None came back and
\* the identity is not in the mapping, which holds another document
C12_Witness ==
    /\ Failed(last)
    /\ last.got = "ConnectionError"
    /\ last.ret = NoPath
    /\ ~Has(sessions[last.sid], last.doc_id)
    /\ sessions[last.sid] # EmptyDict

---------------------------------------------------------------------------
(* Risk indicators in text: claims, checked under SpecInfer *)

\* two characters that are one letter, in whatever case
SameLetter(a, b) ==
    \/ a = b
    \/ \E i \in 1..Len(Letters) : {a, b} = {Letters[i], Capitals[i]}

\* kw occurs in s somewhere, the case of letters apart
Mentions(s, kw) ==
    \E i \in 1..(Len(s) - Len(kw) + 1) :
        \A j \in 1..Len(kw) : SameLetter(s[i + j - 1], kw[j])

MentionsAny(s, keywords) == \E kw \in keywords : Mentions(s, kw)

Analysed == analysis # NoAnalysis

\* the closure vocabulary and the open-case vocabulary as C13 gives them
ClosureVocabulary ==
    { <<"c", "a", "s", "e", " ", "c", "l", "o", "s", "e", "d">>,
      <<"n", "o", " ", "f", "u", "r", "t", "h", "e", "r", " ", "a", "c", "t", "i", "o", "n">>,
      <<"n", "f", "a">>,
      <<"c", "l", "o", "s", "u", "r", "e">> }

OpenVocabulary ==
    { <<"o", "p", "e", "n", " ", "c", "a", "s", "e">>,
      <<"o", "n", "g", "o", "i", "n", "g">>,
      <<"a", "c", "t", "i", "v", "e", " ", "r", "e", "m", "e", "d", "i", "a", "t", "i", "o", "n">>,
      <<"m", "o", "n", "i", "t", "o", "r", "i", "n", "g", " ", "r", "e", "q", "u", "i", "r", "e", "d">> }

NoFurtherAction == <<"n", "o", " ", "f", "u", "r", "t", "h", "e", "r", " ", "a", "c", "t", "i", "o", "n">>

\* C13 as stated: the status is one of CLOSED, OPEN, UNKNOWN; CLOSED iff the
\* text has a word of the closure vocabulary ("case closed", "no further
\* action", "nfa", "closure") and none of the open-case vocabulary; OPEN iff
\* it has a word of the open-case vocabulary; UNKNOWN otherwise.
C13_StatusRule ==
    Analysed =>
        LET closure == MentionsAny(infer_text, ClosureVocabulary)
            open == MentionsAny(infer_text, OpenVocabulary)
        IN /\ analysis.inferred_status \in {"CLOSED", "OPEN", "UNKNOWN"}
           /\ (analysis.inferred_status = "CLOSED") = (closure /\ ~open)
           /\ (analysis.inferred_status = "OPEN") = open
           /\ (analysis.inferred_status = "UNKNOWN") = (~closure /\ ~open)

\* the same rule with the closure keywords the code has, "closed" among them
StatusRuleOfCode ==
    Analysed =>
        LET closure == MentionsAny(infer_text, closure_keywords)
            open == MentionsAny(infer_text, open_keywords)
        IN /\ (analysis.inferred_status = "CLOSED") = (closure /\ ~open)
           /\ (analysis.inferred_status = "OPEN") = open
           /\ (analysis.inferred_status = "UNKNOWN") = (~closure /\ ~open)

\* C14, as the code has it: a text with "no further action" and with none of
\* the four open-case keywords ("open case", "ongoing", "active remediation",
\* "monitoring required") has the status CLOSED.
C14_ClosedUnlessOpen ==
    /\ Analysed /\ Mentions(infer_text, NoFurtherAction)
                /\ ~MentionsAny(infer_text, OpenVocabulary) =>
            analysis.inferred_status = "CLOSED"
    /\ Analysed /\ Mentions(infer_text, NoFurtherAction)
                /\ MentionsAny(infer_text, OpenVocabulary) =>
            analysis.inferred_status = "OPEN"

\* C14 reached: "no further action" beside a closure word, no open-case word
C14_Witness ==
    /\ Analysed
    /\ Mentions(infer_text, NoFurtherAction)
    /\ Mentions(infer_text, <<"c", "l", "o", "s", "e", "d">>)
    /\ ~MentionsAny(infer_text, OpenVocabulary)
    /\ analysis.inferred_status = "CLOSED"

\* C14 as stated: a text with "no further action" and with neither "ongoing"
\* nor "active remediation" has the status CLOSED
C14_ClosedUnlessOngoing ==
    Analysed /\ Mentions(infer_text, NoFurtherAction)
             /\ ~Mentions(infer_text, <<"o", "n", "g", "o", "i", "n", "g">>)
             /\ ~Mentions(infer_text, <<"a", "c", "t", "i", "v", "e", " ", "r", "e", "m", "e", "d", "i", "a", "t", "i", "o", "n">>) =>
        analysis.inferred_status = "CLOSED"

FlagNames ==
    { "pfas", "petroleum", "heavy_metals", "chlorinated_solvents", "offsite_impact",
      "groundwater_impact", "soil_contamination" }

\* C15: the flags returned are the seven of the vocabulary, each true exactly
\* when a keyword of its list occurs in the text, the case of letters apart;
\* the empty text has every flag false and the status UNKNOWN; the length
\* returned is that of the text.
C15_FlagIffKeyword ==
    Analysed =>
        /\ DOMAIN analysis.risk_flags = FlagNames
        /\ DOMAIN Vocabulary = FlagNames
        /\ \A key \in FlagNames :
               analysis.risk_flags[key] = MentionsAny(infer_text, Vocabulary[key])
        /\ analysis.document_text_length = Len(infer_text)
        /\ infer_text = <<>> =>
               /\ \A key \in FlagNames : analysis.risk_flags[key] = FALSE
               /\ analysis.inferred_status = "UNKNOWN"

\* C15 reached: PFAS in capitals and "lead" inside another word set their
\* flags, and no other flag is set
C15_Witness ==
    /\ Analysed
    /\ ~Occurs(<<"p", "f", "a", "s">>, infer_text)
    /\ Mentions(infer_text, <<"m", "i", "s", "l", "e", "a", "d">>)
    /\ \A key \in FlagNames :
           analysis.risk_flags[key] = (key \in {"pfas", "heavy_metals"})

---------------------------------------------------------------------------
(* The derivation of risk flags: claims, checked under SpecPass *)

\* the boolean flags of a mapping: every key but the status label
BooleanFlags(risk_flags) == DOMAIN risk_flags \ {"status_label"}

\* the derivation has run to its end
PassDone ==
    pass_k = CASE pass_impl = "renderer" -> RendererStatements
               [] pass_impl = "index_rendered" -> IndexRenderedStatements
               [] pass_impl = "index_plain" -> IndexPlainStatements
               [] OTHER -> PlainStatements

\* what the same derivation gives when taken in one piece
PassWhole ==
    CASE pass_impl = "renderer" ->
             scrape_brrts_site(PassDsn, [raised |-> FALSE, msg |-> "",
                                         page |-> pass_page])["risk_flags"]
      [] pass_impl = "index_rendered" -> IndexRendered(PassDsn, pass_page)["risk_flags"]
      [] pass_impl = "index_plain" ->
             IndexFallback(PassDsn, [kind |-> "ok", msg |-> "", page |-> pass_page],
                           [status |-> "", docs |-> <<>>])["risk_flags"]
      [] OTHER ->
             PlainTry(PassDsn, [kind |-> "ok", msg |-> "", page |-> pass_page])
                 .value["risk_flags"]

\* C17: along one derivation no statement takes a flag that is true back to
\* false or out of the mapping, and none drops a key: a boolean flag changes
\* at most once, from false (or absent) to true.
C17_Monotonic ==
    [][ pass_k > 0 =>
            /\ DOMAIN pass_flags \subseteq DOMAIN pass_flags'
            /\ \A key \in BooleanFlags(pass_flags) :
                   pass_flags[key] => pass_flags'[key] ]_vars

\* the statements, run one by one to the end, give what each scraper returns
PassAgrees == PassDone /\ pass_impl \in PassImpls => pass_flags = PassWhole

\* C17 reached: the renderer found an underground tank and the activity type
\* LUST on a page whose text does not say petroleum; the keyword tests have
\* run and petroleum is still true
C17_Witness ==
    /\ pass_impl = "renderer" /\ PassDone
    /\ pass_page.values = FullValues
    /\ "petroleum" \notin pass_page.words
    /\ pass_flags["petroleum"] /\ pass_flags["underground_tank"]
    /\ ~pass_flags["heavy_metals"]

---------------------------------------------------------------------------
(* Download sessions under ids that name nested directories: claims,       *)
(* checked under SpecNested                                                *)

\* C19 as stated: whatever call is made for one session id, in whatever order
\* the calls for two ids come, it leaves the other id's registration, mapping,
\* directory and files as they were.
C19_Isolated ==
    [][ last'.op # "none" => OthersKept(last'.sid) ]_vars

\* a cleanup made for one session id has removed a file that a session with
\* another id had downloaded and still has in its mapping
CleanupTookAnothersFile ==
    /\ last.op \in {"cleanup", "cleanup_session"}
    /\ \E o \in DOMAIN sessions \ {last.sid} :
           \E p \in Range(sessions[o]) : p \notin files

---------------------------------------------------------------------------
(* Download sessions: whose file a path is; checked under SpecRepeated *)

\* a download call has returned a path
GavePath == last.op = "download" /\ last.ret # NoPath

\* C28: every path download_document returns for a document is that of a
\* file fetched from the download_url of that document, so that two documents
\* with different download_urls never get the same path, be their ids or
\* their names the same.
C28_OwnFile ==
    GavePath /\ last.ret \in files => origin[last.ret] = last.url

\* what holds: a path that came with a fetch is that of the file just fetched
\* from the url of the document
FetchedOwnFile ==
    GavePath /\ last.fetch => last.ret \in files /\ origin[last.ret] = last.url

\* a document got the file of another url out of the cache, by its id
CachedOthersFile ==
    /\ GavePath /\ last.hit /\ last.doc_id = "int:7"
    /\ last.ret \in files
    /\ origin[last.ret] # last.url

---------------------------------------------------------------------------
(* Text cleanup: claims, checked under SpecClean *)

\* the characters the cleanup counts as horizontal white space
Horizontal == {" ", "\t"}

\* s has n consecutive characters of the set somewhere
HasRun(s, chars, n) ==
    \E i \in 1..(Len(s) - n + 1) : \A k \in 0..(n - 1) : s[i + k] \in chars

\* s has a character of the first set right before one of the second
HasPair(s, first, second) ==
    \E i \in 1..(Len(s) - 1) : s[i] \in first /\ s[i + 1] \in second

Trimmed(s) == s = <<>> \/ (s[1] \notin Whitespace /\ s[Len(s)] \notin Whitespace)

NoNul(s) == \A i \in 1..Len(s) : s[i] # NUL

\* C21: for every text, what clean_extracted_text returns has no three
\* newlines in a row, no two horizontal white space characters in a row, no
\* horizontal white space right before a newline, no null byte, and no white
\* space at either end.
C21_AllRules ==
    Len(cleaned) >= 1 =>
        /\ ~HasRun(cleaned[1], {"\n"}, 3)
        /\ ~HasRun(cleaned[1], Horizontal, 2)
        /\ ~HasPair(cleaned[1], Horizontal, {"\n"})
        /\ NoNul(cleaned[1])
        /\ Trimmed(cleaned[1])

\* what does hold of every result: no null byte, no tab, no white space at
\* either end
CleanAlways ==
    Len(cleaned) >= 1 =>
        /\ NoNul(cleaned[1])
        /\ \A i \in 1..Len(cleaned[1]) : cleaned[1][i] # "\t"
        /\ Trimmed(cleaned[1])

\* and of the result for a text without null bytes: no two blanks in a row
\* and no blank before a newline
CleanWithoutNul ==
    Len(cleaned) >= 1 /\ NoNul(clean_text) =>
        /\ ~HasRun(cleaned[1], Horizontal, 2)
        /\ ~HasPair(cleaned[1], Horizontal, {"\n"})

\* and of the result for a text where no blank stands before a newline and
\* no null byte between newlines: no three newlines in a row
CleanWithoutBlankLines ==
    Len(cleaned) >= 1 /\ ~HasPair(clean_text, Horizontal \cup {NUL}, {"\n"}) =>
        ~HasRun(cleaned[1], {"\n"}, 3)

\* C30: clean_extracted_text is idempotent: cleaning what it returned
\* returns the same text.
C30_Idempotent ==
    Len(cleaned) = 2 => cleaned[2] = cleaned[1]

\* a text whose cleaning needed a second pass
SecondPassChanged ==
    Len(cleaned) = 2 /\ cleaned[2] # cleaned[1]

---------------------------------------------------------------------------
(* Field scraping of the fallback: claims, checked under SpecScrape *)

ScrapedFields ==
    {"status", "activity_type", "location_name", "address", "municipality", "county",
     "region"}

Filled(site_info, field) == site_info[field] # "Not available"

\* C25: in the plain fetch of scrape_dnr_site the three techniques are
\* first-match-wins per field: once a field of site_info has been filled, by
\* a technique or by an earlier element, no later element overwrites it.
C25_FirstMatchWins ==
    [][ \A field \in ScrapedFields :
            Filled(scr_info, field) => scr_info'[field] = scr_info[field] ]_vars

\* what holds: a label cell never overwrites a filled field, and no input
\* overwrites a filled location_name
GuardedWrites ==
    [][ /\ scr_page[scr_k + 1].kind = "cell" =>
              \A field \in ScrapedFields :
                  Filled(scr_info, field) => scr_info'[field] = scr_info[field]
        /\ scr_page[scr_k + 1].kind = "input" /\ Filled(scr_info, "location_name") =>
              scr_info'["location_name"] = scr_info["location_name"]
      ]_vars

\* a second input with status in its name has replaced the value of the first
LastInputWon ==
    /\ scr_k = 2
    /\ scr_page[1].kind = "input" /\ scr_page[1].name = "site_status"
    /\ scr_page[1].value = "A"
    /\ scr_page[2].kind = "input" /\ scr_page[2].name = "site_status"
    /\ scr_info["status"] = "B"

====
